---- MODULE Spec2Model ----
(***************************************************************************)
(* Model of the browser-side upload scripts: the Visual Bridge image       *)
(* optimizer (filesync-bridge.js), the Smart Media Assistant image         *)
(* processor (index.js) and the FileSync bridge (unnamed/part_001).        *)
(*                                                                         *)
(* JavaScript numbers are IEEE-754 doubles.  Every arithmetic step the     *)
(* code performs on them is modelled with its rounding (round to nearest,  *)
(* ties to even, 53-bit significand), on significands kept as bit          *)
(* sequences, because the floored results depend on that rounding.         *)
(***************************************************************************)
EXTENDS Integers, Sequences, FiniteSets, TLC

(***************************************************************************)
(* Naturals of any length, as bit sequences (most significant bit first).  *)
(* Arithmetic runs on hexadecimal digits, four bits at a time; the small   *)
(* operand (a multiplier or a divisor) must be below 2^27.                 *)
(***************************************************************************)
Precision == 53

Zeros(n) == [i \in 1..n |-> 0]

RECURSIVE BitsOfNat(_)
BitsOfNat(n) == IF n = 0 THEN << >> ELSE Append(BitsOfNat(n \div 2), n % 2)

RECURSIVE NatOfBits(_)
NatOfBits(b) ==
  IF Len(b) = 0 THEN 0
  ELSE 2 * NatOfBits(SubSeq(b, 1, Len(b) - 1)) + b[Len(b)]

StripLeading(b) ==
  LET ones == {i \in 1..Len(b) : b[i] = 1}
  IN  IF ones = {} THEN << >>
      ELSE LET first == CHOOSE i \in ones : \A j \in ones : i <= j
           IN  SubSeq(b, first, Len(b))

PadLeft(b, n) == Zeros(n - Len(b)) \o b

DigitsOfBits(b) ==
  LET p == PadLeft(b, 4 * ((Len(b) + 3) \div 4))
  IN  [j \in 1..(Len(p) \div 4) |->
         8 * p[4 * j - 3] + 4 * p[4 * j - 2] + 2 * p[4 * j - 1] + p[4 * j]]

BitsOfDigits(ds) ==
  [i \in 1..(4 * Len(ds)) |->
     (ds[((i - 1) \div 4) + 1] \div <<8, 4, 2, 1>>[((i - 1) % 4) + 1]) % 2]

\* ds * k (schoolbook, right to left, with carry)
RECURSIVE MulDigitsRec(_, _, _, _, _)
MulDigitsRec(ds, i, k, carry, acc) ==
  IF i = 0 THEN DigitsOfBits(BitsOfNat(carry)) \o acc
  ELSE MulDigitsRec(ds, i - 1, k, (ds[i] * k + carry) \div 16,
                    <<(ds[i] * k + carry) % 16>> \o acc)

MulBits(b, k) ==
  LET ds == DigitsOfBits(b)
  IN  BitsOfDigits(MulDigitsRec(ds, Len(ds), k, 0, << >>))

\* ds divided by a positive d (long division, left to right): the quotient
\* has the length of ds, the remainder is below d
RECURSIVE DivDigitsRec(_, _, _, _, _)
DivDigitsRec(ds, i, d, rem, acc) ==
  IF i > Len(ds) THEN [q |-> acc, r |-> rem]
  ELSE DivDigitsRec(ds, i + 1, d, (16 * rem + ds[i]) % d,
                    Append(acc, (16 * rem + ds[i]) \div d))

DivBits(b, d) ==
  LET qr == DivDigitsRec(DigitsOfBits(b), 1, d, 0, << >>)
  IN  [q |-> BitsOfDigits(qr.q), r |-> qr.r]

\* xs + ys of two digit sequences of the same length
RECURSIVE AddDigitsRec(_, _, _, _, _)
AddDigitsRec(xs, ys, i, carry, acc) ==
  IF i = 0 THEN <<carry>> \o acc
  ELSE AddDigitsRec(xs, ys, i - 1, (xs[i] + ys[i] + carry) \div 16,
                    <<(xs[i] + ys[i] + carry) % 16>> \o acc)

\* a + b of two bit sequences of the same length
AddBits(a, b) ==
  BitsOfDigits(AddDigitsRec(DigitsOfBits(a), DigitsOfBits(b),
                            Len(DigitsOfBits(a)), 0, << >>))

\* xs - ys of two digit sequences of the same length, xs >= ys
RECURSIVE SubDigitsRec(_, _, _, _, _)
SubDigitsRec(xs, ys, i, borrow, acc) ==
  IF i = 0 THEN acc
  ELSE IF xs[i] - ys[i] - borrow < 0
    THEN SubDigitsRec(xs, ys, i - 1, 1, <<xs[i] - ys[i] - borrow + 16>> \o acc)
  ELSE SubDigitsRec(xs, ys, i - 1, 0, <<xs[i] - ys[i] - borrow>> \o acc)

\* a - b of two bit sequences of the same length, a >= b
SubBits(a, b) ==
  BitsOfDigits(SubDigitsRec(DigitsOfBits(a), DigitsOfBits(b),
                            Len(DigitsOfBits(a)), 0, << >>))

\* -1, 0, 1 as a < b, a = b, a > b, for bit sequences of the same length
CmpBits(a, b) ==
  LET diff == {i \in 1..Len(a) : a[i] # b[i]}
  IN  IF diff = {} THEN 0
      ELSE LET first == CHOOSE i \in diff : \A j \in diff : i <= j
           IN  IF a[first] < b[first] THEN -1 ELSE 1

(***************************************************************************)
(* Doubles.  A double is [s, e, m]: sign s (1 is negative), significand m  *)
(* of Precision bits with m[1] = 1, and e the exponent of its last bit, so *)
(* the value is (-1)^s * m * 2^e.  Zero has the empty significand.  The    *)
(* magnitudes the code reaches are far from the subnormal and overflow     *)
(* ranges, so the exponent is not bounded.                                 *)
(***************************************************************************)
FZero == [s |-> 0, e |-> 0, m |-> << >>]

IsZero(x) == Len(x.m) = 0

\* the double nearest to (-1)^s * (bits * 2^e + t), where 0 < t < 2^e iff
\* sticky; ties go to the even significand
RoundToDouble(s, bits, e, sticky) ==
  LET sig == StripLeading(bits)
      len == Len(sig)
  IN  IF len = 0 THEN FZero
      ELSE IF len <= Precision
        THEN [s |-> s, e |-> e - (Precision - len),
              m |-> sig \o Zeros(Precision - len)]
      ELSE LET kept  == SubSeq(sig, 1, Precision)
               guard == sig[Precision + 1]
               rest  == sticky \/ \E i \in (Precision + 2)..len : sig[i] = 1
               up    == guard = 1 /\ (rest \/ kept[Precision] = 1)
               inc   == StripLeading(AddBits(kept, PadLeft(<<1>>, Precision)))
           IN  IF ~up THEN [s |-> s, e |-> e + (len - Precision), m |-> kept]
               ELSE IF Len(inc) = Precision
                 THEN [s |-> s, e |-> e + (len - Precision), m |-> inc]
               ELSE [s |-> s, e |-> e + (len - Precision) + 1,
                     m |-> SubSeq(inc, 1, Precision)]

\* an integer as a double (exact below 2^53)
ToDouble(n) ==
  IF n < 0 THEN RoundToDouble(1, BitsOfNat(-n), 0, FALSE)
  ELSE RoundToDouble(0, BitsOfNat(n), 0, FALSE)

\* x * k in double arithmetic, k an integer
FMulInt(x, k) ==
  IF IsZero(x) \/ k = 0 THEN FZero
  ELSE LET mag == IF k < 0 THEN -k ELSE k
           sgn == IF k < 0 THEN 1 - x.s ELSE x.s
       IN  RoundToDouble(sgn, MulBits(x.m, mag), x.e, FALSE)

\* x / d in double arithmetic, d a positive integer
FDivInt(x, d) ==
  IF IsZero(x) THEN FZero
  ELSE LET extra == Len(BitsOfNat(d)) + 3
           qr    == DivBits(x.m \o Zeros(extra), d)
       IN  RoundToDouble(x.s, qr.q, x.e - extra, qr.r # 0)

\* -1, 0, 1 as |x| < |y|, |x| = |y|, |x| > |y|
CmpMag(x, y) ==
  IF IsZero(x) THEN (IF IsZero(y) THEN 0 ELSE -1)
  ELSE IF IsZero(y) THEN 1
  ELSE IF x.e < y.e THEN -1
  ELSE IF x.e > y.e THEN 1
  ELSE CmpBits(x.m, y.m)

\* x < y
FLess(x, y) ==
  IF IsZero(x) /\ IsZero(y) THEN FALSE
  ELSE IF IsZero(x) THEN y.s = 0
  ELSE IF IsZero(y) THEN x.s = 1
  ELSE IF x.s # y.s THEN x.s = 1
  ELSE IF x.s = 0 THEN CmpMag(x, y) = -1
  ELSE CmpMag(x, y) = 1

\* Math.min(x, y)
FMin(x, y) == IF FLess(y, x) THEN y ELSE x

\* x + y in double arithmetic
FAdd(x, y) ==
  IF IsZero(x) THEN y
  ELSE IF IsZero(y) THEN x
  ELSE LET e0 == IF x.e < y.e THEN x.e ELSE y.e
           xa == x.m \o Zeros(x.e - e0)
           ya == y.m \o Zeros(y.e - e0)
           wid == IF Len(xa) > Len(ya) THEN Len(xa) ELSE Len(ya)
           xb == PadLeft(xa, wid)
           yb == PadLeft(ya, wid)
       IN  IF x.s = y.s THEN RoundToDouble(x.s, AddBits(xb, yb), e0, FALSE)
           ELSE IF CmpBits(xb, yb) >= 0
             THEN RoundToDouble(x.s, SubBits(xb, yb), e0, FALSE)
           ELSE RoundToDouble(y.s, SubBits(yb, xb), e0, FALSE)

\* Math.floor(x) for x >= 0, as an integer
FFloor(x) ==
  IF IsZero(x) \/ x.e <= -Precision THEN 0
  ELSE IF x.e >= 0 THEN NatOfBits(x.m \o Zeros(x.e))
  ELSE NatOfBits(SubSeq(x.m, 1, Precision + x.e))

\* the literal 1.2: the double nearest to 12/10
OnePointTwo == FDivInt(ToDouble(12), 10)

(***************************************************************************)
(* ImageOptimizer.calculateOptimalSize (Visual Bridge)                     *)
(***************************************************************************)
\* the scaled pair Math.floor(width * ratio), Math.floor(height * ratio)
Scaled(width, height, ratio) ==
  [width  |-> FFloor(FMulInt(ratio, width)),
   height |-> FFloor(FMulInt(ratio, height))]

calculateOptimalSize(width, height, maxSize, mode) ==
  LET same == [width |-> width, height |-> height]
  IN  IF mode = "speed" /\ (width > maxSize \/ height > maxSize)
        THEN LET ratio == FMin(FDivInt(ToDouble(maxSize), width),
                               FDivInt(ToDouble(maxSize), height))
             IN  Scaled(width, height, ratio)
      ELSE IF mode = "quality"
        THEN LET big   == FMulInt(OnePointTwo, maxSize)
                 ratio == FMin(FDivInt(big, width), FDivInt(big, height))
             IN  IF FLess(ratio, ToDouble(1)) THEN Scaled(width, height, ratio)
                 ELSE same
      ELSE LET aspectRatio == FDivInt(ToDouble(width), height)
               ratio == FMin(FDivInt(ToDouble(maxSize), width),
                             FDivInt(ToDouble(maxSize), height))
           IN  IF FLess(ToDouble(2), aspectRatio)
                  \/ FLess(aspectRatio, FDivInt(ToDouble(1), 2))
                 THEN IF FLess(ratio, ToDouble(1))
                        THEN Scaled(width, height, ratio)
                      ELSE same
               ELSE Scaled(width, height, ratio)


(***************************************************************************)
(* State.  One of the three upload scripts is loaded (each installs its    *)
(* own upload entry point); variant says which.                            *)
(***************************************************************************)
VARIABLES
  variant,       \* "vb" (filesync-bridge.js), "index" (index.js), "fs" (part_001)
  pluginConfig,  \* the settings of the loaded script
  isReady,       \* VisualBridge.isReady
  calls,         \* the upload calls, by slot
  canvas,        \* the canvas shared by the calls of ImageOptimizer
  metrics,       \* ImageOptimizer.metrics
  ratios,        \* the percentage reduction of each encode so far, in order
  processor,     \* FileProcessor: its queue, processing flag and metrics
  twin,          \* two runs of the Visual Bridge side by side
  vision,        \* a call of __visionAnalysisByTavern and the host it runs in
  multi,         \* a call of __uploadMultipleImagesByPlugin
  sched,         \* the TaskScheduler of the ecosystem and the promises of its API
  pool,          \* the WorkerPool of the ecosystem, its workers and its jobs
  started,       \* the number of upload calls made
  inputs,        \* the files (with options) the callers have at hand
  budget,        \* how many calls the callers make, and how many at a time
  sizeIn,        \* the arguments of a direct call of calculateOptimalSize
  sizeOut,       \* its result
  sizePc         \* and its position

varsUpload ==
  <<variant, pluginConfig, isReady, calls, canvas, metrics, ratios, processor,
    twin, vision, multi, sched, pool, started, inputs, budget>>

varsUpload_but_vision ==
  <<variant, pluginConfig, isReady, calls, canvas, metrics, ratios, processor,
    twin, multi, sched, pool, started, inputs, budget>>

varsSize == <<sizeIn, sizeOut, sizePc>>

vars == <<varsUpload, varsSize>>

Modes == {"speed", "quality", "smart"}

(***************************************************************************)
(* Files and images                                                        *)
(***************************************************************************)
\* an image of width 0 stands for bytes that do not decode
NoImage == [width |-> 0, height |-> 0]

NoFile == [type |-> "", ext |-> "", size |-> 0, image |-> NoImage]

Decodable(file) == file.image.width > 0

MB == 1024 * 1024

\* file.type.startsWith('image/'), on the MIME types of the model
StartsWithImage(type) ==
  type \in {"image/jpeg", "image/png", "image/gif", "image/webp", "image/bmp",
            "image/tiff", "image/svg+xml"}

\* file.type.startsWith('text/')
StartsWithText(type) == type \in {"text/plain"}

\* file.type.includes('json'), file.type.includes('xml')
IncludesJson(type) == type \in {"application/json"}

IncludesXml(type) == type \in {"image/svg+xml"}

\* file.type.split('/')[0]
MajorType(type) ==
  IF StartsWithImage(type) THEN "image"
  ELSE IF StartsWithText(type) THEN "text"
  ELSE IF type = "application/json" THEN "application"
  ELSE type

(***************************************************************************)
(* Visual Bridge (filesync-bridge.js)                                      *)
(***************************************************************************)
CONFIG_DEFAULTS ==
  [active |-> TRUE, optimizationMode |-> "smart", maxDimension |-> 2048,
   fileLimit |-> 20,
   formatSupport |-> {"image/jpeg", "image/png", "image/webp", "image/gif"},
   enableMetrics |-> TRUE, maxFileSize |-> 20 * MB, simpleMode |-> FALSE]

\* validate with the size test written >= : a file of exactly the limit is
\* turned away
vbValidate_AtLimit(cfg, file) ==
  IF file.type = "" \/ ~StartsWithImage(file.type) THEN "notImage"
  ELSE IF file.type \notin cfg.formatSupport THEN "format"
  ELSE IF file.size >= cfg.fileLimit * 1024 * 1024 THEN "size"
  ELSE "ok"

\* FileValidator.validate(file): "ok" or the error it throws
vbValidate(cfg, file) ==
  IF file.type = "" \/ ~StartsWithImage(file.type) THEN "notImage"
  ELSE IF file.type \notin cfg.formatSupport THEN "format"
  ELSE IF file.size > cfg.fileLimit * 1024 * 1024 THEN "size"
  ELSE "ok"

\* ImageOptimizer.updateMetrics(originalSize, optimizedSize)
compressionRatio(originalSize, optimizedSize) ==
  FMulInt(FDivInt(ToDouble(originalSize - optimizedSize), originalSize), 100)

\* updateMetrics weighting the old average by the new count
updateMetrics_NewCount(m, cfg, originalSize, optimizedSize) ==
  IF ~cfg.enableMetrics THEN m
  ELSE LET processed == m.processed + 1
       IN  [processed |-> processed,
            totalSaved |-> m.totalSaved + (originalSize - optimizedSize),
            avgCompressionRatio |->
              FDivInt(FAdd(FMulInt(m.avgCompressionRatio, processed),
                           compressionRatio(originalSize, optimizedSize)),
                      processed)]

updateMetrics(m, cfg, originalSize, optimizedSize) ==
  IF ~cfg.enableMetrics THEN m
  ELSE LET processed == m.processed + 1
       IN  [processed |-> processed,
            totalSaved |-> m.totalSaved + (originalSize - optimizedSize),
            avgCompressionRatio |->
              FDivInt(FAdd(FMulInt(m.avgCompressionRatio, processed - 1),
                           compressionRatio(originalSize, optimizedSize)),
                      processed)]

(***************************************************************************)
(* window.__visionAnalysisByTavern (index.js).  Strings are sequences of   *)
(* characters; a value the host returns has a type and, for a string, its  *)
(* text; a thrown value is an Error with a message, a string, or           *)
(* undefined/null ("nullish").                                             *)
(***************************************************************************)
\* String.prototype.trim
RECURSIVE TrimStart(_)
TrimStart(str) ==
  IF Len(str) > 0 /\ Head(str) = " " THEN TrimStart(Tail(str)) ELSE str

RECURSIVE TrimEnd(_)
TrimEnd(str) ==
  IF Len(str) > 0 /\ str[Len(str)] = " "
    THEN TrimEnd(SubSeq(str, 1, Len(str) - 1))
  ELSE str

Trim(str) == TrimEnd(TrimStart(str))

Texts == { << >>, <<" ">>, <<"c">>, <<" ", "c", " ">>, <<"c", " ", "t">> }

\* what a generate function can return, and what it or getBase64Async can
\* throw
Responses ==
  [type : {"string"}, text : Texts]
    \cup [type : {"object", "undefined", "number"}, text : {<< >>}]

Throwables ==
  { [kind |-> "Error",   message |-> "boom"],
    [kind |-> "Error",   message |-> ""],
    [kind |-> "string",  message |-> ""],
    [kind |-> "nullish", message |-> ""] }

VisionInputs ==
  { [kind |-> "string", type |-> ""],
    [kind |-> "file",   type |-> "image/png"],
    [kind |-> "file",   type |-> "text/plain"],
    [kind |-> "file",   type |-> ""],
    [kind |-> "null",   type |-> ""] }

\* the host: plugin_enabled, whether getContext() returns a context, and what
\* window.generateRaw and window.Generate are
Hosts ==
  [enabled : BOOLEAN, context : BOOLEAN,
   generateRaw : {"undefined", "function", "other"},
   Generate : {"undefined", "function", "other"}]

NoValue == [success |-> FALSE, result |-> << >>, error |-> ""]

NoVision ==
  [pc |-> "idle", host |-> [enabled |-> FALSE, context |-> FALSE,
                            generateRaw |-> "undefined", Generate |-> "undefined"],
   input |-> [kind |-> "null", type |-> ""], by |-> "", value |-> NoValue]

\* the catch block: the object it returns, unless reading error.message
\* throws in its turn
visionCatch(v, thrown) ==
  IF thrown.kind = "nullish" THEN [v EXCEPT !.pc = "rejected"]
  ELSE [v EXCEPT !.pc = "resolved",
                 !.value = [success |-> FALSE, result |-> << >>,
                            error |-> IF thrown.kind = "Error" /\ thrown.message # ""
                                        THEN thrown.message
                                      ELSE "unknown"]]

Thrown(message) == [kind |-> "Error", message |-> message]

\* the choice of the generate function, once the image data is there
visionGenerate(v) ==
  IF v.host.generateRaw = "function"
    THEN [v EXCEPT !.pc = "generating", !.by = "generateRaw"]
  ELSE IF v.host.Generate = "function"
    THEN [v EXCEPT !.pc = "generating", !.by = "Generate"]
  ELSE visionCatch(v, Thrown("noFunction"))

\* window.__visionAnalysisByTavern(input, prompt), up to its first await
visionCall(input) ==
  /\ vision.pc = "idle"
  /\ LET v == [vision EXCEPT !.input = input]
     IN  vision' =
           IF ~v.host.enabled THEN visionCatch(v, Thrown("notEnabled"))
           ELSE IF ~v.host.context THEN visionCatch(v, Thrown("noContext"))
           ELSE IF v.host.Generate = "undefined" /\ v.host.generateRaw = "undefined"
             THEN visionCatch(v, Thrown("noGenerate"))
           ELSE IF input.kind = "string" THEN visionGenerate(v)
           ELSE IF input.kind = "file" /\ StartsWithImage(input.type)
             THEN [v EXCEPT !.pc = "reading"]
           ELSE visionCatch(v, Thrown("invalidInput"))
  /\ UNCHANGED <<varsUpload_but_vision, varsSize>>

\* getBase64Async(input) has resolved
visionRead ==
  /\ vision.pc = "reading"
  /\ vision' = visionGenerate(vision)
  /\ UNCHANGED <<varsUpload_but_vision, varsSize>>

\* getBase64Async(input) has rejected
visionReadFailed(thrown) ==
  /\ vision.pc = "reading"
  /\ vision' = visionCatch(vision, thrown)
  /\ UNCHANGED <<varsUpload_but_vision, varsSize>>

\* the generate function has returned response
visionGenerated(response) ==
  /\ vision.pc = "generating"
  /\ vision' =
       IF response.type = "string" /\ Len(response.text) > 0
            /\ Len(Trim(response.text)) > 0
         THEN [vision EXCEPT !.pc = "resolved",
                             !.value = [success |-> TRUE,
                                        result |-> Trim(response.text),
                                        error |-> ""]]
       ELSE visionCatch(vision, Thrown("emptyResult"))
  /\ UNCHANGED <<varsUpload_but_vision, varsSize>>

\* the generate function has thrown
visionGenerateThrew(thrown) ==
  /\ vision.pc = "generating"
  /\ vision' = visionCatch(vision, thrown)
  /\ UNCHANGED <<varsUpload_but_vision, varsSize>>

(***************************************************************************)
(* Upload calls.  A call holds its file and options, its position pc       *)
(* ("idle", "queued", "context", "decoding", "encoding", "reading",        *)
(* "saving", "resolved", "rejected"), the mode and maximum dimension read  *)
(* when the resize began, the dimensions computed and the length encoded,  *)
(* its error, the URL it returned, counts of the decodes, reads and saves  *)
(* it started, whether its image element has fired 'error', and the        *)
(* dimensions of the canvas when it was encoded, the steps it has taken in *)
(* order, and the URL saveBase64AsFile resolved with.                      *)
(***************************************************************************)
NoDims == [width |-> 0, height |-> 0]

IdleCall ==
  [pc |-> "idle", file |-> NoFile, skip |-> FALSE, mode |-> "", maxSize |-> 0,
   dims |-> NoDims, enc |-> 0, err |-> "", url |-> "",
   decodes |-> 0, reads |-> 0, saves |-> 0, loadError |-> FALSE,
   encoded |-> NoDims, steps |-> << >>, stored |-> ""]

Settled(rec) == rec.pc \in {"idle", "resolved", "rejected"}

InFlight == {u \in DOMAIN calls : ~Settled(calls[u])}

Reject(rec, reason) == [rec EXCEPT !.pc = "rejected", !.err = reason]

\* a caller may start a call in slot u
MayCall(u) ==
  /\ Settled(calls[u])
  /\ started < budget.calls
  /\ Cardinality(InFlight) < budget.overlap

UNCHANGED_env ==
  UNCHANGED <<variant, pluginConfig, inputs, budget, twin, vision, multi,
              sched, pool, varsSize>>

UNCHANGED_vb == UNCHANGED processor

UNCHANGED_other == UNCHANGED <<isReady, canvas, metrics, ratios>>

\* jQuery ready handler: await visualBridge.initialize()
vbInitialize ==
  /\ variant = "vb"
  /\ ~isReady
  /\ isReady' = TRUE
  /\ UNCHANGED <<calls, canvas, metrics, ratios, started>>
  /\ UNCHANGED_vb
  /\ UNCHANGED_env

\* the upload with the image element created before the file is validated
vbUpload_DecodeFirst(u, in) ==
  /\ variant = "vb"
  /\ MayCall(u)
  /\ started' = started + 1
  /\ LET call == [IdleCall EXCEPT !.file = in.file, !.skip = in.skip,
                                  !.decodes = 1]
         thrown == IF pluginConfig.simpleMode THEN "simpleUploadMode"
                   ELSE IF ~isReady THEN "notReady"
                   ELSE IF ~pluginConfig.active THEN "disabled"
                   ELSE vbValidate(pluginConfig, in.file)
     IN  calls' = [calls EXCEPT ![u] =
                     IF thrown = "ok" THEN [call EXCEPT !.pc = "context"]
                     ELSE Reject(call, thrown)]
  /\ UNCHANGED <<isReady, canvas, metrics, ratios>>
  /\ UNCHANGED_vb
  /\ UNCHANGED_env

\* the call that window.__uploadImageByPlugin(imageFile, processingOptions)
\* makes, up to the first await of VisualBridge.processVisualFile
processVisualFile(cfg, ready, in) ==
  LET call == [IdleCall EXCEPT !.file = in.file, !.skip = in.skip]
      thrown == IF cfg.simpleMode THEN "simpleUploadMode"
                ELSE IF ~ready THEN "notReady"
                ELSE IF ~cfg.active THEN "disabled"
                ELSE vbValidate(cfg, in.file)
      checked == [call EXCEPT !.steps = <<"validate">>]
  IN  IF thrown = "ok" THEN [checked EXCEPT !.pc = "context"]
      ELSE IF thrown \in {"notImage", "format", "size"}
        THEN Reject(checked, thrown)
      ELSE Reject(call, thrown)

\* window.__uploadImageByPlugin(imageFile, processingOptions), up to the first
\* await of VisualBridge.processVisualFile
vbUpload(u, in) ==
  /\ variant = "vb"
  /\ MayCall(u)
  /\ started' = started + 1
  /\ calls' = [calls EXCEPT ![u] = processVisualFile(pluginConfig, isReady, in)]
  /\ UNCHANGED <<isReady, canvas, metrics, ratios>>
  /\ UNCHANGED_vb
  /\ UNCHANGED_env

\* ImageOptimizer.initCanvas(): the canvas is created once, at the size a
\* new canvas has
initCanvas(cv) ==
  IF cv.created THEN cv ELSE [created |-> TRUE, width |-> 300, height |-> 150]

\* the call after getCurrentContext: reading the file (skipOptimization) or,
\* in optimizeImage, waiting for its image to decode
optimizeImage(cfg, call) ==
  IF call.skip THEN [call EXCEPT !.pc = "reading", !.reads = @ + 1,
                                 !.steps = Append(@, "read")]
  ELSE [call EXCEPT !.pc = "decoding", !.decodes = @ + 1,
                    !.mode = cfg.optimizationMode,
                    !.maxSize = cfg.maxDimension,
                    !.steps = Append(@, "optimize")]

\* ContextProvider.getCurrentContext() has resolved: getBase64Async(file) or
\* optimizeImage(file, options) begins (initCanvas, the mode and the maximum
\* dimension read from the settings, the callers passing neither as an
\* option, the image element created and given the file)
vbContext(u) ==
  /\ variant = "vb"
  /\ calls[u].pc = "context"
  /\ calls' = [calls EXCEPT ![u] = optimizeImage(pluginConfig, calls[u])]
  /\ canvas' = IF calls[u].skip THEN canvas ELSE initCanvas(canvas)
  /\ UNCHANGED <<isReady, metrics, ratios, started>>
  /\ UNCHANGED_vb
  /\ UNCHANGED_env

\* image.onload of optimizeImage once the dimensions are computed: the canvas
\* takes them, the image is drawn (applyOptimization), the canvas encoded as
\* it then is (toDataURL), the metrics updated and the promise resolved
encode(cfg, call, cv, m, length, dimensions) ==
  LET sized == [cv EXCEPT !.width = dimensions.width,
                          !.height = dimensions.height]
  IN  [canvas  |-> sized,
       metrics |-> updateMetrics(m, cfg, call.file.size, length),
       call    |-> [call EXCEPT !.pc = "saving", !.dims = dimensions,
                                !.encoded = [width |-> sized.width,
                                             height |-> sized.height],
                                !.enc = length, !.saves = @ + 1,
                                !.steps = Append(@, "save")]]

\* onload choosing the mode by the metrics: 'speed' once an encode is counted
onload_ByMetrics(cfg, call, cv, m, length) ==
  encode(cfg, call, cv, m, length,
         calculateOptimalSize(call.file.image.width, call.file.image.height,
                              call.maxSize,
                              IF m.processed > 0 THEN "speed" ELSE call.mode))

\* image.onload of optimizeImage in one piece: the canvas takes the computed
\* size, the image is drawn, the canvas is encoded as it then is, the metrics
\* are updated; with the promise resolved saveBase64AsFile is called
onload(cfg, call, cv, m, length) ==
  encode(cfg, call, cv, m, length,
         calculateOptimalSize(call.file.image.width, call.file.image.height,
                              call.maxSize, call.mode))

\* image.onload with the encode put off to a later turn: the first step
\* sizes and draws the canvas, the second encodes the canvas as it then is
vbImageLoad_EncodeLater(u, length) ==
  /\ variant = "vb"
  /\ calls[u].pc = "decoding"
  /\ Decodable(calls[u].file)
  /\ \E loaded \in {onload(pluginConfig, calls[u], canvas, metrics, length)} :
         IF calls[u].dims = NoDims
           THEN /\ canvas' = loaded.canvas
                /\ calls' = [calls EXCEPT ![u].dims = loaded.call.dims]
                /\ UNCHANGED <<metrics, ratios>>
         ELSE /\ calls' = [calls EXCEPT ![u] =
                             [loaded.call EXCEPT !.encoded =
                                [width |-> canvas.width, height |-> canvas.height]]]
              /\ metrics' = loaded.metrics
              /\ ratios' = Append(ratios, compressionRatio(calls[u].file.size, length))
              /\ UNCHANGED canvas
  /\ UNCHANGED <<isReady, started>>
  /\ UNCHANGED_vb
  /\ UNCHANGED_env

\* image.onload: the size computed, the canvas resized and drawn, the data URL
\* produced (of a length the encoder decides), the metrics updated, the
\* promise resolved; processVisualFile goes on to call saveBase64AsFile
vbImageLoad(u, length) ==
  /\ variant = "vb"
  /\ calls[u].pc = "decoding"
  /\ Decodable(calls[u].file)
  /\ \E loaded \in {onload(pluginConfig, calls[u], canvas, metrics, length)} :
         /\ canvas' = loaded.canvas
         /\ metrics' = loaded.metrics
         /\ calls' = [calls EXCEPT ![u] = loaded.call]
  /\ ratios' = Append(ratios, compressionRatio(calls[u].file.size, length))
  /\ UNCHANGED <<isReady, started>>
  /\ UNCHANGED_vb
  /\ UNCHANGED_env

\* image.onerror of optimizeImage
onerror(call) == Reject([call EXCEPT !.loadError = TRUE], "decode")

\* image.onerror: the promise rejected, the upload fails
vbImageError(u) ==
  /\ variant = "vb"
  /\ calls[u].pc = "decoding"
  /\ ~Decodable(calls[u].file)
  /\ calls' = [calls EXCEPT ![u] = onerror(calls[u])]
  /\ UNCHANGED <<isReady, canvas, metrics, ratios, started>>
  /\ UNCHANGED_vb
  /\ UNCHANGED_env

\* processVisualFile calls saveBase64AsFile
save(call) ==
  [call EXCEPT !.pc = "saving", !.saves = @ + 1, !.steps = Append(@, "save")]

\* a return that builds the URL from the storage path and the file name
return_Path(call, url) ==
  [call EXCEPT !.pc = "resolved", !.stored = url, !.url = "path",
               !.steps = Append(@, "return")]

\* processVisualFile returns the URL saveBase64AsFile resolved with
return(call, url) ==
  [call EXCEPT !.pc = "resolved", !.stored = url, !.url = url,
               !.steps = Append(@, "return")]

\* getBase64Async(file) has resolved (the file reader reads any bytes):
\* processVisualFile goes on to call saveBase64AsFile
vbRead(u) ==
  /\ variant = "vb"
  /\ calls[u].pc = "reading"
  /\ calls' = [calls EXCEPT ![u] = save(calls[u])]
  /\ UNCHANGED <<isReady, canvas, metrics, ratios, started>>
  /\ UNCHANGED_vb
  /\ UNCHANGED_env

Urls == {"url1", "url2"}

\* saveBase64AsFile has resolved with the URL the host chose
vbSaved(u, url) ==
  /\ variant = "vb"
  /\ calls[u].pc = "saving"
  /\ calls' = [calls EXCEPT ![u] = return(calls[u], url)]
  /\ UNCHANGED <<isReady, canvas, metrics, ratios, started>>
  /\ UNCHANGED_vb
  /\ UNCHANGED_env

\* saveBase64AsFile has rejected
vbSaveFailed(u) ==
  /\ variant = "vb"
  /\ calls[u].pc = "saving"
  /\ calls' = [calls EXCEPT ![u] = Reject(@, "save")]
  /\ UNCHANGED <<isReady, canvas, metrics, ratios, started>>
  /\ UNCHANGED_vb
  /\ UNCHANGED_env

(***************************************************************************)
(* Smart Media Assistant (index.js)                                        *)
(***************************************************************************)
DEFAULT_CONFIG ==
  [enableImageProcessing |-> TRUE, maxImageDimension |-> 2048,
   maxFileSize |-> 20,
   supportedImageTypes |->
     {"image/jpeg", "image/png", "image/gif", "image/webp", "image/bmp"},
   supportedImageExtensions |-> {"jpg", "jpeg", "png", "gif", "webp", "bmp"},
   supportedDocumentTypes |->
     {"text/plain", "application/json", "text/markdown", "text/csv",
      "text/html", "text/xml", "application/xml", "text/javascript",
      "application/javascript", "text/css", "application/rtf"},
   supportedDocumentExtensions |->
     {"txt", "json", "md", "csv", "html", "xml", "js", "css", "rtf", "log",
      "conf", "config", "ini", "yaml", "yml"}]

\* FileTypeDetector.detectFileType(file)
detectFileType(cfg, file) ==
  LET isImageByType == file.type \in cfg.supportedImageTypes
                         \/ StartsWithImage(file.type)
      isImageByExt  == file.ext \in cfg.supportedImageExtensions
      isImage       == isImageByType
                         \/ (StartsWithImage(file.type) /\ isImageByExt)
      isDocumentByType == \/ file.type \in cfg.supportedDocumentTypes
                          \/ StartsWithText(file.type)
                          \/ IncludesJson(file.type)
                          \/ IncludesXml(file.type)
      isDocumentByExt == file.ext \in cfg.supportedDocumentExtensions
      isDocument      == isDocumentByType \/ isDocumentByExt
  IN  IF isImage /\ ~isDocument THEN "image"
      ELSE IF isDocument /\ ~isImage THEN "document"
      ELSE IF isImage /\ isDocument
        THEN (IF file.ext \in cfg.supportedImageExtensions THEN "image"
              ELSE "document")
      ELSE "unknown"

\* FileValidator.validate(file, 'image'): "ok" or the error it throws
idxValidate(cfg, file) ==
  IF file.size > cfg.maxFileSize * 1024 * 1024 THEN "size"
  ELSE IF detectFileType(cfg, file) # "image" THEN "format"
  ELSE "ok"

\* the canvas size of ImageProcessor.processImage: the numbers computed in
\* img.onload, truncated by the canvas to integers
idxCanvasSize(width, height, maxDim) ==
  IF width > maxDim \/ height > maxDim
    THEN IF width > height
           THEN [width |-> maxDim,
                 height |-> FFloor(FDivInt(ToDouble(height * maxDim), width))]
         ELSE [width |-> FFloor(FDivInt(ToDouble(width * maxDim), height)),
               height |-> maxDim]
  ELSE [width |-> width, height |-> height]

\* ImageProcessor.processImage(file), up to the return of its promise: rejected
\* by what the function throws, or pending on the decoding of the image
processImage(cfg, file) ==
  LET call == [IdleCall EXCEPT !.file = file]
      thrown == IF ~cfg.enableImageProcessing THEN "disabled"
                ELSE idxValidate(cfg, file)
  IN  IF thrown = "ok"
        THEN [call EXCEPT !.pc = "decoding", !.decodes = 1]
      ELSE Reject(call, thrown)

\* window.__uploadImageByPlugin(file) = ImageProcessor.processImage(file)
idxUpload(u, in) ==
  /\ variant = "index"
  /\ MayCall(u)
  /\ started' = started + 1
  /\ calls' = [calls EXCEPT ![u] = processImage(pluginConfig, in.file)]
  /\ UNCHANGED processor
  /\ UNCHANGED_other
  /\ UNCHANGED_env

\* img.onload, up to its await: the canvas sized and drawn, the JPEG data URL
\* produced, saveBase64AsFile called
idxImageLoad(u, length) ==
  /\ variant = "index"
  /\ calls[u].pc = "decoding"
  /\ Decodable(calls[u].file)
  /\ calls' = [calls EXCEPT
       ![u].pc = "saving",
       ![u].maxSize = pluginConfig.maxImageDimension,
       ![u].dims = idxCanvasSize(calls[u].file.image.width,
                                 calls[u].file.image.height,
                                 pluginConfig.maxImageDimension),
       ![u].enc = length,
       ![u].saves = @ + 1]
  /\ UNCHANGED <<processor, started>>
  /\ UNCHANGED_other
  /\ UNCHANGED_env

\* img.onerror
idxImageError(u) ==
  /\ variant = "index"
  /\ calls[u].pc = "decoding"
  /\ ~Decodable(calls[u].file)
  /\ calls' = [calls EXCEPT ![u] = Reject([@ EXCEPT !.loadError = TRUE], "decode")]
  /\ UNCHANGED <<processor, started>>
  /\ UNCHANGED_other
  /\ UNCHANGED_env

\* saveBase64AsFile has resolved: img.onload resolves the promise
idxSaved(u, url) ==
  /\ variant = "index"
  /\ calls[u].pc = "saving"
  /\ calls' = [calls EXCEPT ![u].pc = "resolved", ![u].url = url]
  /\ UNCHANGED <<processor, started>>
  /\ UNCHANGED_other
  /\ UNCHANGED_env

\* saveBase64AsFile has rejected: the catch of img.onload rejects the promise
idxSaveFailed(u) ==
  /\ variant = "index"
  /\ calls[u].pc = "saving"
  /\ calls' = [calls EXCEPT ![u] = Reject(@, "save")]
  /\ UNCHANGED <<processor, started>>
  /\ UNCHANGED_other
  /\ UNCHANGED_env

NoSummary ==
  [success |-> FALSE, results |-> << >>, errors |-> << >>, totalCount |-> 0,
   successCount |-> 0, errorCount |-> 0]

\* a call of window.__uploadMultipleImagesByPlugin: its argument, its loop
\* variable i, its two lists and what it returned.  The processImage call of
\* files[i] runs in slot i + 1 of calls; a file stands for its name.
NoMulti ==
  [pc |-> "idle", files |-> << >>, i |-> 0, results |-> << >>,
   errors |-> << >>, summary |-> NoSummary]

\* the for loop from its test of i to its next await, or to the return
multiLoop(cfg, m, cs) ==
  IF m.i < Len(m.files)
    THEN [multi |-> [m EXCEPT !.pc = "awaiting"],
          calls |-> [cs EXCEPT ![m.i + 1] =
                       processImage(cfg, m.files[m.i + 1])],
          called |-> 1]
  ELSE [multi |-> [m EXCEPT
                     !.pc = "returned",
                     !.summary = [success |-> Len(m.results) > 0,
                                  results |-> m.results,
                                  errors |-> m.errors,
                                  totalCount |-> Len(m.files),
                                  successCount |-> Len(m.results),
                                  errorCount |-> Len(m.errors)]],
        calls |-> cs,
        called |-> 0]

\* window.__uploadMultipleImagesByPlugin(files), up to its first await
multiCall(files) ==
  /\ variant = "index"
  /\ multi.pc = "idle"
  /\ LET entered == multiLoop(pluginConfig, [NoMulti EXCEPT !.files = files],
                              calls)
     IN  /\ multi' = entered.multi
         /\ calls' = entered.calls
         /\ started' = started + entered.called
  /\ UNCHANGED processor
  /\ UNCHANGED_other
  /\ UNCHANGED <<variant, pluginConfig, inputs, budget, twin, vision, sched,
                 pool,
                 varsSize>>

\* the body of the loop after its await: the result, or the catch
multiBody(m, awaited) ==
  IF awaited.pc = "resolved"
    THEN [m EXCEPT !.results =
            Append(@, [url |-> awaited.url,
                       multiImageIndex |-> m.i + 1,
                       multiImageTotal |-> Len(m.files),
                       originalFileName |-> m.files[m.i + 1]])]
  ELSE [m EXCEPT !.errors =
          Append(@, [index |-> m.i + 1,
                     fileName |-> m.files[m.i + 1],
                     error |-> awaited.err])]

\* the catch ends the loop
multiResume_StopOnError ==
  /\ variant = "index"
  /\ multi.pc = "awaiting"
  /\ calls[multi.i + 1].pc \in {"resolved", "rejected"}
  /\ LET done == multiBody(multi, calls[multi.i + 1])
         resumed == multiLoop(pluginConfig,
                              [done EXCEPT !.i = IF calls[multi.i + 1].pc = "rejected"
                                                   THEN Len(done.files)
                                                 ELSE @ + 1],
                              calls)
     IN  /\ multi' = resumed.multi
         /\ calls' = resumed.calls
         /\ started' = started + resumed.called
  /\ UNCHANGED processor
  /\ UNCHANGED_other
  /\ UNCHANGED <<variant, pluginConfig, inputs, budget, twin, vision, sched,
                 pool,
                 varsSize>>

\* the promise of processImage has settled: the loop resumes, finishes this
\* file, increments i and runs to its next await or to the return
multiResume ==
  /\ variant = "index"
  /\ multi.pc = "awaiting"
  /\ calls[multi.i + 1].pc \in {"resolved", "rejected"}
  /\ LET done == multiBody(multi, calls[multi.i + 1])
         resumed == multiLoop(pluginConfig, [done EXCEPT !.i = @ + 1], calls)
     IN  /\ multi' = resumed.multi
         /\ calls' = resumed.calls
         /\ started' = started + resumed.called
  /\ UNCHANGED processor
  /\ UNCHANGED_other
  /\ UNCHANGED <<variant, pluginConfig, inputs, budget, twin, vision, sched,
                 pool,
                 varsSize>>

(***************************************************************************)
(* FileSync bridge (unnamed/part_001)                                      *)
(***************************************************************************)
FileSyncDefaults ==
  [strategy |-> "character", maxSize |-> 10 * 1024 * 1024,
   allowedTypes |-> {"image/jpeg", "image/png", "image/gif", "image/webp"},
   compression |-> [enabled |-> TRUE]]

\* a FileProcessor after its constructor.  A task of the queue is the slot
\* of its call and its id, the number of the enqueue that made it; handled
\* lists the ids of the tasks handleTask was invoked with, in order.
IdleProcessor ==
  [queue |-> << >>, processing |-> FALSE,
   metrics |-> [processed |-> 0, errors |-> 0, totalSize |-> 0],
   handled |-> << >>]

\* FileSyncBridge.validateFile(file): "ok" or the error it throws
validateFile(cfg, file) ==
  IF file.size > cfg.maxSize THEN "size"
  ELSE IF file.type \notin cfg.allowedTypes THEN "format"
  ELSE "ok"

\* FileProcessor.handleTask and the start of the handler it picks: "ok" or
\* the error the handler throws before its first await
handleTask(cfg, file) ==
  IF MajorType(file.type) = "image" THEN validateFile(cfg, file)
  ELSE "format"

\* the canvas size of FileSyncBridge.compressImage
compressSize(width, height) ==
  IF width > 1920 \/ height > 1920
    THEN LET ratio == FMin(FDivInt(ToDouble(1920), width),
                           FDivInt(ToDouble(1920), height))
         IN  Scaled(width, height, ratio)
  ELSE [width |-> width, height |-> height]

\* the loop of FileProcessor.process from its test of the queue: tasks whose
\* handler throws at once are rejected and counted, the first other task is
\* started (compressImage, or getBase64Async when compression is off); with
\* the queue empty processing ends
RECURSIVE process(_, _, _)
process(cfg, cs, pr) ==
  IF Len(pr.queue) = 0 THEN [calls |-> cs, processor |-> [pr EXCEPT !.processing = FALSE]]
  ELSE LET task   == Head(pr.queue).call
           taken  == [pr EXCEPT !.queue = Tail(@), !.processing = TRUE,
                                !.handled = Append(@, Head(pr.queue).id)]
           thrown == handleTask(cfg, cs[task].file)
       IN  IF thrown # "ok"
             THEN process(cfg, [cs EXCEPT ![task] = Reject(@, thrown)],
                          [taken EXCEPT !.metrics.errors = @ + 1])
           ELSE IF cfg.compression.enabled
             THEN [calls |-> [cs EXCEPT ![task].pc = "decoding",
                                        ![task].decodes = @ + 1],
                   processor |-> taken]
           ELSE [calls |-> [cs EXCEPT ![task].pc = "reading",
                                      ![task].reads = @ + 1],
                 processor |-> taken]

\* the catch rejects the task and leaves the loop
Finish_StopOnError(cfg, before, proc, u, outcome, url) ==
  IF outcome = "ok"
    THEN process(cfg, [before EXCEPT ![u].pc = "resolved", ![u].url = url],
                 [proc EXCEPT !.metrics.processed = @ + 1,
                              !.metrics.totalSize = @ + before[u].file.size])
  ELSE [calls |-> [before EXCEPT ![u] = Reject(@, outcome)],
        processor |-> [proc EXCEPT !.metrics.errors = @ + 1]]

\* the task of call u is settled: the catch or the success branch of the
\* loop counts it, and the loop goes on
Finish(cfg, before, proc, u, outcome, url) ==
  IF outcome = "ok"
    THEN process(cfg, [before EXCEPT ![u].pc = "resolved", ![u].url = url],
                 [proc EXCEPT !.metrics.processed = @ + 1,
                              !.metrics.totalSize = @ + before[u].file.size])
  ELSE process(cfg, [before EXCEPT ![u] = Reject(@, outcome)],
               [proc EXCEPT !.metrics.errors = @ + 1])

\* process() runs its loop whatever the processing flag says
fsUpload_Unguarded(u, in) ==
  /\ variant = "fs"
  /\ MayCall(u)
  /\ started' = started + 1
  /\ LET pushed == [calls EXCEPT ![u] = [IdleCall EXCEPT !.file = in.file,
                                                         !.pc = "queued"]]
         longer == [processor EXCEPT
                      !.queue = Append(@, [call |-> u, id |-> started + 1])]
         after  == process(pluginConfig, pushed, longer)
     IN  calls' = after.calls /\ processor' = after.processor
  /\ UNCHANGED_other
  /\ UNCHANGED_env

\* window.FileSyncUpload(file): FileProcessor.enqueue and the process() it
\* calls, up to the first await that waits for an event
fsUpload(u, in) ==
  /\ variant = "fs"
  /\ MayCall(u)
  /\ started' = started + 1
  /\ LET pushed == [calls EXCEPT ![u] = [IdleCall EXCEPT !.file = in.file,
                                                         !.pc = "queued"]]
         longer == [processor EXCEPT
                      !.queue = Append(@, [call |-> u, id |-> started + 1])]
         after  == process(pluginConfig, pushed, longer)
     IN  IF processor.processing
           THEN calls' = pushed /\ processor' = longer
         ELSE calls' = after.calls /\ processor' = after.processor
  /\ UNCHANGED_other
  /\ UNCHANGED_env

\* img.onload of compressImage: the canvas sized and drawn, toBlob called
fsImageLoad(u) ==
  /\ variant = "fs"
  /\ calls[u].pc = "decoding"
  /\ Decodable(calls[u].file)
  /\ calls' = [calls EXCEPT
       ![u].pc = "encoding",
       ![u].dims = compressSize(calls[u].file.image.width,
                                calls[u].file.image.height)]
  /\ UNCHANGED <<processor, started>>
  /\ UNCHANGED_other
  /\ UNCHANGED_env

\* the image element fires 'error': compressImage listens for none
fsImageError(u) ==
  /\ variant = "fs"
  /\ calls[u].pc = "decoding"
  /\ ~Decodable(calls[u].file)
  /\ ~calls[u].loadError
  /\ calls' = [calls EXCEPT ![u].loadError = TRUE]
  /\ UNCHANGED <<processor, started>>
  /\ UNCHANGED_other
  /\ UNCHANGED_env

\* the toBlob callback: compressImage resolves with the blob, the handler
\* goes on to storage.execute, saveWithPath and getBase64Async(blob)
fsBlob(u, length) ==
  /\ variant = "fs"
  /\ calls[u].pc = "encoding"
  /\ calls' = [calls EXCEPT ![u].pc = "reading", ![u].enc = length,
                            ![u].reads = @ + 1]
  /\ UNCHANGED <<processor, started>>
  /\ UNCHANGED_other
  /\ UNCHANGED_env

\* getBase64Async has resolved in saveWithPath.  A compressed file is a Blob
\* without a name, and file.name.split throws; the original file goes on to
\* saveBase64AsFile
fsRead(u) ==
  /\ variant = "fs"
  /\ calls[u].pc = "reading"
  /\ IF pluginConfig.compression.enabled
       THEN LET after == Finish(pluginConfig, calls, processor, u, "TypeError", "")
            IN  calls' = after.calls /\ processor' = after.processor
     ELSE /\ calls' = [calls EXCEPT ![u].pc = "saving", ![u].saves = @ + 1]
          /\ UNCHANGED processor
  /\ UNCHANGED started
  /\ UNCHANGED_other
  /\ UNCHANGED_env

\* saveBase64AsFile has resolved: the handler returns, the task is resolved
fsSaved(u, url) ==
  /\ variant = "fs"
  /\ calls[u].pc = "saving"
  /\ LET after == Finish(pluginConfig, calls, processor, u, "ok", url)
     IN  calls' = after.calls /\ processor' = after.processor
  /\ UNCHANGED started
  /\ UNCHANGED_other
  /\ UNCHANGED_env

\* saveBase64AsFile has rejected: the task is rejected
fsSaveFailed(u) ==
  /\ variant = "fs"
  /\ calls[u].pc = "saving"
  /\ LET after == Finish(pluginConfig, calls, processor, u, "save", "")
     IN  calls' = after.calls /\ processor' = after.processor
  /\ UNCHANGED started
  /\ UNCHANGED_other
  /\ UNCHANGED_env

(***************************************************************************)
(* The settings panels of the Visual Bridge and of index.js                *)
(***************************************************************************)
UNCHANGED_settings ==
  UNCHANGED <<variant, isReady, calls, canvas, metrics, ratios, processor,
              twin, vision, multi, sched, pool, started, inputs, budget,
              varsSize>>

\* filesync-bridge.js, bindSettingsEvents: the input handler of #maxFileSize,
\* with the text of the field a number of megabytes
vbMaxFileSizeInput(value) ==
  /\ variant = "vb"
  /\ pluginConfig' = [pluginConfig EXCEPT !.maxFileSize = value * 1024 * 1024]
  /\ UNCHANGED_settings

\* index.js, bindEventListeners: the input handler of the maxFileSize slider
idxMaxFileSizeInput(value) ==
  /\ variant = "index"
  /\ pluginConfig' = [pluginConfig EXCEPT !.maxFileSize = value]
  /\ UNCHANGED_settings

(***************************************************************************)
(* Visual Bridge ecosystem (unnamed/part_003): the TaskScheduler           *)
(***************************************************************************)
ECOSYSTEM_CONFIG ==
  [services |-> [taskScheduler |-> [maxConcurrency |-> 3],
                 workerPool |-> [poolSize |-> 2]]]

NoResult == [url |-> "", subtasks |-> << >>, count |-> 0]

NoWait == [pc |-> "none", value |-> NoResult, error |-> ""]

\* a TaskScheduler after its constructor.  tasks[id] is the task object of
\* that id, with the await its executeTask or submitTask stands at (phase),
\* the channels of the messageBus it was published on (published) and
\* whether handleTaskCancellation found it queued or running (cancelled);
\* loop is the position of startScheduler; waits[id] is the promise of the
\* media.process or media.processBatch call that submitted the task.
NoScheduler ==
  [isRunning |-> FALSE, loop |-> "new", taskId |-> 0, taskQueue |-> << >>,
   tasks |-> << >>, runningTasks |-> {}, completedTasks |-> {},
   waits |-> << >>]

UNCHANGED_sched ==
  UNCHANGED <<variant, pluginConfig, isReady, calls, canvas, metrics, ratios,
              processor, twin, vision, multi, pool, started, inputs, budget,
              varsSize>>

priorityOrder(priority) ==
  CASE priority = "high" -> 3 [] priority = "normal" -> 2 [] priority = "low" -> 1

\* the callback of sortTaskQueue says that a goes before b (it returns a
\* negative number).  A priority that is no key of priorityOrder makes the
\* difference NaN, which is not 0 and is returned, and which the sort takes
\* for +0.  Ids grow with the time of creation.
SortsBefore(tasks, a, b) ==
  /\ tasks[a].priority \in {"high", "normal", "low"}
  /\ tasks[b].priority \in {"high", "normal", "low"}
  /\ \/ priorityOrder(tasks[a].priority) > priorityOrder(tasks[b].priority)
     \/ /\ priorityOrder(tasks[a].priority) = priorityOrder(tasks[b].priority)
        /\ a < b

\* the stable insertion of Array.prototype.sort on a short array whose
\* last element alone is out of place: the element moves left past the
\* elements it goes before
RECURSIVE InsertSorted(_, _, _)
InsertSorted(tasks, queue, id) ==
  IF queue = << >> THEN <<id>>
  ELSE IF SortsBefore(tasks, id, queue[Len(queue)])
    THEN Append(InsertSorted(tasks, SubSeq(queue, 1, Len(queue) - 1), id),
                queue[Len(queue)])
  ELSE Append(queue, id)

\* TaskScheduler.sortTaskQueue
RECURSIVE sortTaskQueue(_, _)
sortTaskQueue(tasks, queue) ==
  IF queue = << >> THEN << >>
  ELSE InsertSorted(tasks,
                    sortTaskQueue(tasks, SubSeq(queue, 1, Len(queue) - 1)),
                    queue[Len(queue)])

\* TaskScheduler.submitTask up to its await of cacheManager.store
submitTask(sch, taskData, waiter) ==
  [sch EXCEPT
     !.taskId = @ + 1,
     !.tasks = Append(@, [type |-> taskData.type,
                          priority |-> taskData.priority,
                          files |-> taskData.files,
                          parent |-> taskData.parent,
                          status |-> "pending", phase |-> "storing",
                          result |-> NoResult, error |-> "",
                          subtasks |-> << >>, published |-> << >>,
                          cancelled |-> FALSE]),
     !.waits = Append(@, [NoWait EXCEPT !.pc = waiter])]

\* executeTask: the task has completed, up to the await of the store
completeTask(sch, id, result) ==
  [sch EXCEPT
     !.tasks[id].status = "completed",
     !.tasks[id].result = result,
     !.tasks[id].phase = "finishing",
     !.runningTasks = @ \ {id},
     !.completedTasks = @ \cup {id}]

\* executeTask: the catch, up to the await of the store
failTask(sch, id, message) ==
  [sch EXCEPT
     !.tasks[id].status = "failed",
     !.tasks[id].error = message,
     !.tasks[id].phase = "failing",
     !.runningTasks = @ \ {id}]

\* processBatchTask from the test of its loop: the next subtask is
\* submitted, or the batch returns
processBatchTask(sch, id) ==
  IF Len(sch.tasks[id].subtasks) < sch.tasks[id].files
    THEN submitTask([sch EXCEPT !.tasks[id].phase = "batching"],
                    [type |-> "media:process", priority |-> "low",
                     files |-> 0, parent |-> id],
                    "none")
  ELSE completeTask(sch, id, [NoResult EXCEPT
                                !.subtasks = sch.tasks[id].subtasks,
                                !.count = sch.tasks[id].files])

\* TaskScheduler.initialize: isRunning is set and startScheduler called; it
\* finds the queue empty and sleeps
schedInitialize ==
  /\ variant = "ecosystem"
  /\ sched.loop = "new"
  /\ sched' = [sched EXCEPT !.isRunning = TRUE, !.loop = "sleeping"]
  /\ UNCHANGED_sched

\* the subtasks the batches among the tasks 1..id have yet to submit
RECURSIVE Unsubmitted(_, _)
Unsubmitted(sch, id) ==
  IF id = 0 THEN 0
  ELSE Unsubmitted(sch, id - 1) + sch.tasks[id].files
         - Cardinality({sub \in DOMAIN sch.tasks : sch.tasks[sub].parent = id})

\* window.VisualBridge.media.process(file, options), media.processBatch(files)
\* and tasks.submit(taskData), up to the await of the store in submitTask
schedSubmit(call) ==
  /\ variant = "ecosystem"
  /\ sched.loop # "new"
  /\ sched.taskId + 1 + call.files + Unsubmitted(sched, sched.taskId)
       <= budget.calls
  /\ sched' = submitTask(sched,
                         [type |-> call.type, priority |-> call.priority,
                          files |-> call.files, parent |-> 0],
                         IF call.api = "media" THEN "submitting" ELSE "none")
  /\ UNCHANGED_sched

\* the store of submitTask has succeeded (the requests of one object store
\* succeed in the order they were made): the task is queued, the queue
\* sorted, and the caller goes on: media.process calls waitForTask, whose
\* first check finds nothing; processBatchTask goes round its loop
schedStored(id) ==
  /\ variant = "ecosystem"
  /\ id \in DOMAIN sched.tasks
  /\ sched.tasks[id].phase = "storing"
  /\ \A other \in 1..(id - 1) : sched.tasks[other].phase # "storing"
  /\ LET queued ==
           [sched EXCEPT
              !.tasks[id].phase = "queued",
              !.tasks[id].published = Append(@, "task:submitted"),
              !.taskQueue = sortTaskQueue(sched.tasks, Append(@, id)),
              !.waits[id].pc = IF @ = "submitting" THEN "polling" ELSE @]
         batch == sched.tasks[id].parent
     IN  sched' = IF batch = 0 THEN queued
                  ELSE processBatchTask(
                         [queued EXCEPT !.tasks[batch].subtasks = Append(@, id)],
                         batch)
  /\ UNCHANGED_sched

\* TaskScheduler.canExecuteMoreTasks
canExecuteMoreTasks(sch) ==
  Cardinality(sch.runningTasks)
    < ECOSYSTEM_CONFIG.services.taskScheduler.maxConcurrency

\* the timer of startScheduler fires: the loop tests isRunning and returns, or
\* shifts a task and calls executeTask, which runs up to its await of the store
schedTick ==
  /\ variant = "ecosystem"
  /\ sched.loop = "sleeping"
  /\ IF ~sched.isRunning
       THEN sched' = [sched EXCEPT !.loop = "stopped"]
     ELSE /\ Len(sched.taskQueue) > 0
          /\ canExecuteMoreTasks(sched)
          /\ LET task == Head(sched.taskQueue)
             IN  sched' = [sched EXCEPT
                             !.taskQueue = Tail(@),
                             !.loop = "executing",
                             !.tasks[task].status = "running",
                             !.tasks[task].phase = "starting",
                             !.runningTasks = @ \cup {task}]
  /\ UNCHANGED_sched

\* executeTask after its first store: task:started is published and the
\* switch taken, up to the next await
schedStarted(id) ==
  /\ variant = "ecosystem"
  /\ id \in DOMAIN sched.tasks
  /\ sched.tasks[id].phase = "starting"
  /\ \E begun \in {[sched EXCEPT
                       !.tasks[id].published = Append(@, "task:started")]} :
       sched' =
         IF sched.tasks[id].type = "media:process"
           THEN [begun EXCEPT !.tasks[id].phase = "processing"]
         ELSE IF sched.tasks[id].type = "media:batch"
           THEN processBatchTask(begun, id)
         ELSE failTask(begun, id, "Unknown task type")
  /\ UNCHANGED_sched

\* processMediaTask has settled: the file read, compressed by a worker and
\* saved, or one of the three failed
schedProcessed(id, outcome) ==
  /\ variant = "ecosystem"
  /\ id \in DOMAIN sched.tasks
  /\ sched.tasks[id].phase = "processing"
  /\ sched' = IF outcome = "ok"
                THEN completeTask(sched, id, [NoResult EXCEPT !.url = "url1"])
              ELSE failTask(sched, id, outcome)
  /\ UNCHANGED_sched

\* the store after the completion: task:completed is published, executeTask
\* returns and startScheduler sleeps
schedFinished(id) ==
  /\ variant = "ecosystem"
  /\ id \in DOMAIN sched.tasks
  /\ sched.tasks[id].phase = "finishing"
  /\ sched' = [sched EXCEPT
                  !.tasks[id].phase = "done",
                  !.tasks[id].published = Append(@, "task:completed"),
                  !.loop = "sleeping"]
  /\ UNCHANGED_sched

\* the store of the catch: task:failed is published and the error thrown
\* again, out of executeTask and out of the loop of startScheduler, whose
\* promise nobody holds
schedFailed(id) ==
  /\ variant = "ecosystem"
  /\ id \in DOMAIN sched.tasks
  /\ sched.tasks[id].phase = "failing"
  /\ sched' = [sched EXCEPT
                  !.tasks[id].phase = "done",
                  !.tasks[id].published = Append(@, "task:failed"),
                  !.loop = "dead"]
  /\ UNCHANGED_sched

\* TaskScheduler.handleTaskCancellation, called by VisualBridge.tasks.cancel
\* or by a message on task:cancel: the task leaves the queue; a running task
\* is marked, leaves runningTasks and is published on task:cancelled.  The
\* executeTask of a running task is not told and goes on from its await.
handleTaskCancellation(sch, taskId) ==
  LET filtered == [sch EXCEPT
                     !.taskQueue = SelectSeq(@, LAMBDA id : id # taskId),
                     !.tasks[taskId].cancelled =
                       \/ @
                       \/ \E i \in DOMAIN sch.taskQueue : sch.taskQueue[i] = taskId
                       \/ taskId \in sch.runningTasks]
  IN  IF taskId \in sch.runningTasks
        THEN [filtered EXCEPT
                !.tasks[taskId].status = "cancelled",
                !.tasks[taskId].published = Append(@, "task:cancelled"),
                !.runningTasks = @ \ {taskId}]
      ELSE filtered

\* tasks.cancel(taskId) with the id of a task that is queued or running
schedCancel(id) ==
  /\ variant = "ecosystem"
  /\ id \in DOMAIN sched.tasks
  /\ \/ \E i \in DOMAIN sched.taskQueue : sched.taskQueue[i] = id
     \/ id \in sched.runningTasks
  /\ ~sched.tasks[id].cancelled
  /\ sched' = handleTaskCancellation(sched, id)
  /\ UNCHANGED_sched

\* TaskScheduler.stop
schedStop ==
  /\ variant = "ecosystem"
  /\ sched.isRunning
  /\ sched' = [sched EXCEPT !.isRunning = FALSE]
  /\ UNCHANGED_sched

\* checkTask of waitForTask, run by its timer: the promise settles once the
\* task is in completedTasks (a check that finds nothing sets the timer again)
checkTask(id) ==
  /\ variant = "ecosystem"
  /\ id \in DOMAIN sched.waits
  /\ sched.waits[id].pc = "polling"
  /\ id \in sched.completedTasks
  /\ sched' = IF sched.tasks[id].status = "completed"
                THEN [sched EXCEPT !.waits[id].pc = "resolved",
                                   !.waits[id].value = sched.tasks[id].result]
              ELSE [sched EXCEPT !.waits[id].pc = "rejected",
                                 !.waits[id].error =
                                   IF sched.tasks[id].error # ""
                                     THEN sched.tasks[id].error
                                   ELSE "Task failed"]
  /\ UNCHANGED_sched

(***************************************************************************)
(* Visual Bridge ecosystem (unnamed/part_003): the WorkerPool              *)
(***************************************************************************)
\* a WorkerPool after its constructor.  workers[w].job is the job the worker
\* was posted and has not answered (0: none); jobs[id] is the job of that id
\* with the state of the promise execute returned and the number of calls
\* of its resolve and reject.
NoPool ==
  [workers |-> << >>, taskQueue |-> << >>, activeJobs |-> {}, jobId |-> 0,
   jobs |-> << >>]

\* WorkerPool.initialize
poolInitialize(wp) ==
  [wp EXCEPT !.workers =
     [w \in 1..ECOSYSTEM_CONFIG.services.workerPool.poolSize
        |-> [busy |-> FALSE, job |-> 0]]]

\* the callback of WorkerPool.sortTaskQueue says that a goes before b; a
\* priority that is no key of priorityOrder makes the difference NaN
JobSortsBefore(jobs, a, b) ==
  /\ jobs[a].priority \in {"high", "normal", "low"}
  /\ jobs[b].priority \in {"high", "normal", "low"}
  /\ priorityOrder(jobs[a].priority) > priorityOrder(jobs[b].priority)

\* WorkerPool.sortTaskQueue after the push of id on the sorted queue
RECURSIVE poolSortTaskQueue(_, _, _)
poolSortTaskQueue(jobs, queue, id) ==
  IF queue = << >> THEN <<id>>
  ELSE IF JobSortsBefore(jobs, id, queue[Len(queue)])
    THEN Append(poolSortTaskQueue(jobs, SubSeq(queue, 1, Len(queue) - 1), id),
                queue[Len(queue)])
  ELSE Append(queue, id)

\* WorkerPool.assignJobToWorker
assignJobToWorker(wp, w, id) ==
  [wp EXCEPT !.workers[w] = [busy |-> TRUE, job |-> id]]

UNCHANGED_pool ==
  UNCHANGED <<variant, pluginConfig, isReady, calls, canvas, metrics, ratios,
              processor, twin, vision, multi, sched, started, inputs, budget,
              varsSize>>

\* WorkerPool.execute(task, data, priority)
execute(priority) ==
  /\ variant = "ecosystem"
  /\ pool.jobId < budget.calls
  /\ LET id == pool.jobId + 1
         added == [pool EXCEPT
                     !.jobId = id,
                     !.jobs = Append(@, [priority |-> priority,
                                         promise |-> "pending",
                                         settlements |-> 0]),
                     !.activeJobs = @ \cup {id}]
         idle == {w \in DOMAIN pool.workers : ~pool.workers[w].busy}
     IN  pool' =
           IF idle # {}
             THEN assignJobToWorker(
                    added, CHOOSE w \in idle : \A v \in idle : w <= v, id)
           ELSE [added EXCEPT
                   !.taskQueue = poolSortTaskQueue(added.jobs, @, id)]
  /\ UNCHANGED_pool

\* a worker posts the answer to its job: WorkerPool.handleWorkerMessage
handleWorkerMessage(w, success) ==
  /\ variant = "ecosystem"
  /\ w \in DOMAIN pool.workers
  /\ pool.workers[w].job # 0
  /\ LET jobId == pool.workers[w].job
         answered == [pool EXCEPT !.workers[w].job = 0]
     IN  pool' =
           IF jobId \in pool.activeJobs
             THEN LET settled ==
                        [answered EXCEPT
                           !.workers[w].busy = FALSE,
                           !.activeJobs = @ \ {jobId},
                           !.jobs[jobId].settlements = @ + 1,
                           !.jobs[jobId].promise =
                             IF @ # "pending" THEN @
                             ELSE IF success THEN "resolved" ELSE "rejected"]
                  IN  IF Len(settled.taskQueue) > 0
                        THEN assignJobToWorker(
                               [settled EXCEPT !.taskQueue = Tail(@)],
                               w, Head(settled.taskQueue))
                      ELSE settled
           ELSE answered
  /\ UNCHANGED_pool

\* the script of a worker throws outside its try while it works on its job
\* (in the callback of its timer), the job is never answered and the worker
\* raises an error event: WorkerPool.handleWorkerError
handleWorkerError(w) ==
  /\ variant = "ecosystem"
  /\ w \in DOMAIN pool.workers
  /\ pool.workers[w].job # 0
  /\ pool' = [pool EXCEPT !.workers[w] = [busy |-> FALSE, job |-> 0]]
  /\ UNCHANGED_pool

\* WorkerPool.terminate, with jobs active or queued
terminate ==
  /\ variant = "ecosystem"
  /\ pool.activeJobs # {}
  /\ pool' = [pool EXCEPT !.workers = << >>, !.activeJobs = {},
                          !.taskQueue = << >>]
  /\ UNCHANGED_pool

(***************************************************************************)
(* The uploads of one loaded script                                        *)
(***************************************************************************)
MaxCalls == 2

MaxOverlap == 1

Variants == {"vb", "index", "fs"}

\* the settings a script can be running with: its defaults, and what the
\* saved settings (or FileSyncConfig) can make of them
Configs(v) ==
  IF v = "vb"
    THEN { CONFIG_DEFAULTS,
           [CONFIG_DEFAULTS EXCEPT !.optimizationMode = "speed"],
           [CONFIG_DEFAULTS EXCEPT !.optimizationMode = "quality"],
           [CONFIG_DEFAULTS EXCEPT !.active = FALSE],
           [CONFIG_DEFAULTS EXCEPT !.simpleMode = TRUE],
           [CONFIG_DEFAULTS EXCEPT !.enableMetrics = FALSE],
           [CONFIG_DEFAULTS EXCEPT !.fileLimit = 1] }
  ELSE IF v = "index"
    THEN { DEFAULT_CONFIG,
           [DEFAULT_CONFIG EXCEPT !.enableImageProcessing = FALSE],
           [DEFAULT_CONFIG EXCEPT !.maxFileSize = 1] }
  ELSE { FileSyncDefaults,
         [FileSyncDefaults EXCEPT !.compression.enabled = FALSE],
         [FileSyncDefaults EXCEPT !.maxSize = MB] }

\* the size limit in bytes, and the allow-list of MIME types, of a script
LimitBytes(v, cfg) ==
  IF v = "vb" THEN cfg.fileLimit * 1024 * 1024
  ELSE IF v = "index" THEN cfg.maxFileSize * 1024 * 1024
  ELSE cfg.maxSize

AllowList(v, cfg) ==
  IF v = "vb" THEN cfg.formatSupport
  ELSE IF v = "index" THEN cfg.supportedImageTypes
  ELSE cfg.allowedTypes

Image(w, h) == [width |-> w, height |-> h]

\* the files the callers have, around a size limit of limit bytes
Files(limit) ==
  { [type |-> "image/png",  ext |-> "png",  size |-> 1000,      image |-> Image(100, 100)],
    [type |-> "image/png",  ext |-> "png",  size |-> 2000,      image |-> Image(3000, 500)],
    [type |-> "image/jpeg", ext |-> "jpg",  size |-> limit,     image |-> Image(3136, 2000)],
    [type |-> "image/jpeg", ext |-> "jpg",  size |-> limit + 1, image |-> Image(4000, 2000)],
    [type |-> "image/png",  ext |-> "png",  size |-> 5000,      image |-> NoImage],
    [type |-> "image/tiff", ext |-> "tiff", size |-> 1000,      image |-> Image(100, 100)],
    [type |-> "image/bmp",  ext |-> "bmp",  size |-> limit + 1, image |-> Image(100, 100)],
    [type |-> "text/plain", ext |-> "txt",  size |-> 100,       image |-> NoImage] }

\* the files with the options of the call; skipOptimization exists in the
\* Visual Bridge alone
Uploads(v, limit) ==
  { [file |-> f, skip |-> FALSE] : f \in Files(limit) }
    \cup (IF v = "vb"
            THEN { [file |-> f, skip |-> TRUE] :
                     f \in { g \in Files(limit) : g.size \in {1000, 5000} } }
          ELSE {})

\* the lengths of the data URLs the encoder produces
Lengths == {900}

NoCanvas == [created |-> FALSE, width |-> 0, height |-> 0]

NoMetrics == [processed |-> 0, totalSaved |-> 0, avgCompressionRatio |-> FZero]

Init ==
  /\ variant \in Variants
  /\ pluginConfig \in Configs(variant)
  /\ inputs = [uploads |-> Uploads(variant, LimitBytes(variant, pluginConfig)),
               lengths |-> Lengths]
  /\ budget = [calls |-> MaxCalls, overlap |-> MaxOverlap]
  /\ isReady = FALSE
  /\ calls = [u \in 1..MaxOverlap |-> IdleCall]
  /\ canvas = NoCanvas
  /\ metrics = NoMetrics
  /\ ratios = << >>
  /\ processor = IdleProcessor
  /\ twin = << >>
  /\ vision = NoVision
  /\ multi = NoMulti
  /\ sched = NoScheduler
  /\ pool = NoPool
  /\ started = 0
  /\ sizeIn = [width |-> 1, height |-> 1, maxSize |-> 1, mode |-> "smart"]
  /\ sizeOut = NoDims
  /\ sizePc = "idle"

Next ==
  \/ vbInitialize
  \/ \E u \in DOMAIN calls, in \in inputs.uploads : vbUpload(u, in)
  \/ \E u \in DOMAIN calls : vbContext(u)
  \/ \E u \in DOMAIN calls, length \in inputs.lengths : vbImageLoad(u, length)
  \/ \E u \in DOMAIN calls : vbImageError(u)
  \/ \E u \in DOMAIN calls : vbRead(u)
  \/ \E u \in DOMAIN calls, url \in Urls : vbSaved(u, url)
  \/ \E u \in DOMAIN calls : vbSaveFailed(u)
  \/ \E u \in DOMAIN calls, in \in inputs.uploads : idxUpload(u, in)
  \/ \E u \in DOMAIN calls, length \in inputs.lengths : idxImageLoad(u, length)
  \/ \E u \in DOMAIN calls : idxImageError(u)
  \/ \E u \in DOMAIN calls, url \in Urls : idxSaved(u, url)
  \/ \E u \in DOMAIN calls : idxSaveFailed(u)
  \/ \E u \in DOMAIN calls, in \in inputs.uploads : fsUpload(u, in)
  \/ \E u \in DOMAIN calls : fsImageLoad(u)
  \/ \E u \in DOMAIN calls : fsImageError(u)
  \/ \E u \in DOMAIN calls, length \in inputs.lengths : fsBlob(u, length)
  \/ \E u \in DOMAIN calls : fsRead(u)
  \/ \E u \in DOMAIN calls, url \in Urls : fsSaved(u, url)
  \/ \E u \in DOMAIN calls : fsSaveFailed(u)

Spec == Init /\ [][Next]_vars

(***************************************************************************)
(* The metrics of the Visual Bridge over a run of encodes of one file      *)
(***************************************************************************)
MaxEncodes == 4

\* a file of 1000 bytes, encoded to data URLs 10%, 20%, 30% and 55% shorter
\* and one 10% longer
MetricsLengths == {900, 800, 700, 450, 1100}

InitMetrics ==
  /\ variant = "vb"
  /\ pluginConfig \in { CONFIG_DEFAULTS,
                        [CONFIG_DEFAULTS EXCEPT !.enableMetrics = FALSE] }
  /\ inputs = [uploads |-> { [file |-> [type |-> "image/png", ext |-> "png",
                                        size |-> 1000, image |-> Image(100, 100)],
                              skip |-> FALSE] },
               lengths |-> MetricsLengths]
  /\ budget = [calls |-> MaxEncodes, overlap |-> 1]
  /\ isReady = TRUE
  /\ calls = [u \in 1..1 |-> IdleCall]
  /\ canvas = NoCanvas
  /\ metrics = NoMetrics
  /\ ratios = << >>
  /\ processor = IdleProcessor
  /\ twin = << >>
  /\ vision = NoVision
  /\ multi = NoMulti
  /\ sched = NoScheduler
  /\ pool = NoPool
  /\ started = 0
  /\ sizeIn = [width |-> 1, height |-> 1, maxSize |-> 1, mode |-> "smart"]
  /\ sizeOut = NoDims
  /\ sizePc = "idle"

NextMetrics ==
  \/ \E u \in DOMAIN calls, in \in inputs.uploads : vbUpload(u, in)
  \/ \E u \in DOMAIN calls : vbContext(u)
  \/ \E u \in DOMAIN calls, length \in inputs.lengths : vbImageLoad(u, length)
  \/ \E u \in DOMAIN calls, url \in Urls : vbSaved(u, url)
  \/ \E u \in DOMAIN calls : vbSaveFailed(u)

SpecMetrics == InitMetrics /\ [][NextMetrics]_vars

(***************************************************************************)
(* Two runs of the Visual Bridge on the same uploads and the same answers  *)
(* of the host, the second with metrics disabled or with other metrics     *)
(***************************************************************************)
OtherMetrics ==
  [processed |-> 7, totalSaved |-> 123456, avgCompressionRatio |-> ToDouble(35)]

Run(cfg, m) == [cfg |-> cfg, metrics |-> m, call |-> IdleCall, canvas |-> NoCanvas]

Both(F(_)) == twin' = [i \in DOMAIN twin |-> F(twin[i])]

UNCHANGED_twin ==
  UNCHANGED <<variant, pluginConfig, isReady, calls, canvas, metrics, ratios,
              processor, inputs, budget, vision, multi, sched, pool,
              varsSize>>

InitTwin ==
  /\ variant = "vb"
  /\ pluginConfig \in {cfg \in Configs("vb") : cfg.enableMetrics}
  /\ inputs = [uploads |-> Uploads("vb", LimitBytes("vb", pluginConfig)),
               lengths |-> {900, 1100}]
  /\ budget = [calls |-> MaxCalls, overlap |-> 1]
  /\ isReady = TRUE
  /\ calls = << >>
  /\ canvas = NoCanvas
  /\ metrics = NoMetrics
  /\ ratios = << >>
  /\ processor = IdleProcessor
  /\ twin \in { <<Run(pluginConfig, NoMetrics), Run(pluginConfig, OtherMetrics)>>,
               <<Run(pluginConfig, NoMetrics),
                 Run([pluginConfig EXCEPT !.enableMetrics = FALSE], NoMetrics)>> }
  /\ vision = NoVision
  /\ multi = NoMulti
  /\ sched = NoScheduler
  /\ pool = NoPool
  /\ started = 0
  /\ sizeIn = [width |-> 1, height |-> 1, maxSize |-> 1, mode |-> "smart"]
  /\ sizeOut = NoDims
  /\ sizePc = "idle"

\* the same call of __uploadImageByPlugin in both runs
TwinUpload(in) ==
  /\ started < budget.calls
  /\ Settled(twin[1].call)
  /\ started' = started + 1
  /\ LET Called(run) ==
           IF Settled(run.call)
             THEN [run EXCEPT !.call = processVisualFile(run.cfg, isReady, in)]
           ELSE run
     IN  Both(Called)
  /\ UNCHANGED_twin

\* getCurrentContext has resolved in both runs
TwinContext ==
  /\ twin[1].call.pc = "context"
  /\ LET Resumed(run) ==
           IF run.call.pc = "context"
             THEN [run EXCEPT !.call = optimizeImage(run.cfg, run.call),
                              !.canvas = IF run.call.skip THEN @ ELSE initCanvas(@)]
           ELSE run
     IN  Both(Resumed)
  /\ UNCHANGED started
  /\ UNCHANGED_twin

\* the image has loaded in both runs, the encoder giving the same length
TwinImageLoad(length) ==
  /\ twin[1].call.pc = "decoding"
  /\ Decodable(twin[1].call.file)
  /\ LET Loaded(run) ==
           IF run.call.pc = "decoding" /\ Decodable(run.call.file)
             THEN LET Resolved(loaded) ==
                        [run EXCEPT !.call = loaded.call,
                                    !.canvas = loaded.canvas,
                                    !.metrics = loaded.metrics]
                  IN  Resolved(onload(run.cfg, run.call, run.canvas,
                                      run.metrics, length))
           ELSE run
     IN  Both(Loaded)
  /\ UNCHANGED started
  /\ UNCHANGED_twin

\* the image has failed to load in both runs
TwinImageError ==
  /\ twin[1].call.pc = "decoding"
  /\ ~Decodable(twin[1].call.file)
  /\ LET Failed(run) ==
           IF run.call.pc = "decoding" /\ ~Decodable(run.call.file)
             THEN [run EXCEPT !.call = onerror(run.call)]
           ELSE run
     IN  Both(Failed)
  /\ UNCHANGED started
  /\ UNCHANGED_twin

\* getBase64Async has resolved in both runs
TwinRead ==
  /\ twin[1].call.pc = "reading"
  /\ LET Got(run) ==
           IF run.call.pc = "reading" THEN [run EXCEPT !.call = save(run.call)]
           ELSE run
     IN  Both(Got)
  /\ UNCHANGED started
  /\ UNCHANGED_twin

\* saveBase64AsFile has resolved with the same URL in both runs
TwinSaved(url) ==
  /\ twin[1].call.pc = "saving"
  /\ LET Stored(run) ==
           IF run.call.pc = "saving"
             THEN [run EXCEPT !.call = return(run.call, url)]
           ELSE run
     IN  Both(Stored)
  /\ UNCHANGED started
  /\ UNCHANGED_twin

\* saveBase64AsFile has rejected in both runs
TwinSaveFailed ==
  /\ twin[1].call.pc = "saving"
  /\ LET Lost(run) ==
           IF run.call.pc = "saving"
             THEN [run EXCEPT !.call = Reject(run.call, "save")]
           ELSE run
     IN  Both(Lost)
  /\ UNCHANGED started
  /\ UNCHANGED_twin

NextTwin ==
  \/ \E in \in inputs.uploads : TwinUpload(in)
  \/ TwinContext
  \/ \E length \in inputs.lengths : TwinImageLoad(length)
  \/ TwinImageError
  \/ TwinRead
  \/ \E url \in Urls : TwinSaved(url)
  \/ TwinSaveFailed

SpecTwin == InitTwin /\ [][NextTwin]_vars

(***************************************************************************)
(* Overlapping uploads through one ImageOptimizer                          *)
(***************************************************************************)
InitOverlap ==
  /\ variant = "vb"
  /\ pluginConfig \in { CONFIG_DEFAULTS,
                        [CONFIG_DEFAULTS EXCEPT !.optimizationMode = "quality"] }
  /\ inputs = [uploads |-> { up \in Uploads("vb", LimitBytes("vb", pluginConfig)) :
                               /\ vbValidate(pluginConfig, up.file) = "ok"
                               /\ up.file.type = "image/png"
                               /\ ~up.skip },
               lengths |-> Lengths]
  /\ budget = [calls |-> MaxOverlap + 1, overlap |-> MaxOverlap + 1]
  /\ isReady = TRUE
  /\ calls = [u \in 1..(MaxOverlap + 1) |-> IdleCall]
  /\ canvas = NoCanvas
  /\ metrics = NoMetrics
  /\ ratios = << >>
  /\ processor = IdleProcessor
  /\ twin = << >>
  /\ vision = NoVision
  /\ multi = NoMulti
  /\ sched = NoScheduler
  /\ pool = NoPool
  /\ started = 0
  /\ sizeIn = [width |-> 1, height |-> 1, maxSize |-> 1, mode |-> "smart"]
  /\ sizeOut = NoDims
  /\ sizePc = "idle"

NextOverlap ==
  \/ \E u \in DOMAIN calls, in \in inputs.uploads : vbUpload(u, in)
  \/ \E u \in DOMAIN calls : vbContext(u)
  \/ \E u \in DOMAIN calls, length \in inputs.lengths : vbImageLoad(u, length)
  \/ \E u \in DOMAIN calls : vbImageError(u)
  \/ \E u \in DOMAIN calls, url \in Urls : vbSaved(u, url)
  \/ \E u \in DOMAIN calls : vbSaveFailed(u)

SpecOverlap == InitOverlap /\ [][NextOverlap]_vars

(***************************************************************************)
(* One call of __visionAnalysisByTavern in any host                        *)
(***************************************************************************)
InitVision ==
  /\ vision \in {[NoVision EXCEPT !.host = h] : h \in Hosts}
  /\ variant = "index"
  /\ pluginConfig = DEFAULT_CONFIG
  /\ inputs = [uploads |-> {}, lengths |-> {}]
  /\ budget = [calls |-> 0, overlap |-> 0]
  /\ isReady = FALSE
  /\ calls = << >>
  /\ canvas = NoCanvas
  /\ metrics = NoMetrics
  /\ ratios = << >>
  /\ processor = IdleProcessor
  /\ twin = << >>
  /\ multi = NoMulti
  /\ sched = NoScheduler
  /\ pool = NoPool
  /\ started = 0
  /\ sizeIn = [width |-> 1, height |-> 1, maxSize |-> 1, mode |-> "smart"]
  /\ sizeOut = NoDims
  /\ sizePc = "idle"

NextVision ==
  \/ \E input \in VisionInputs : visionCall(input)
  \/ visionRead
  \/ \E thrown \in Throwables : visionReadFailed(thrown)
  \/ \E response \in Responses : visionGenerated(response)
  \/ \E thrown \in Throwables : visionGenerateThrew(thrown)

SpecVision == InitVision /\ [][NextVision]_vars

(***************************************************************************)
(* Overlapping calls of FileSyncUpload                                     *)
(***************************************************************************)
MaxTasks == 3

\* the files of the callers: one that uploads, one that does not decode, one
\* that is too large and one that is no image
QueueFiles(limit) ==
  { f \in Files(limit) : \/ f.type = "image/png" /\ f.image = Image(100, 100)
                         \/ f.type = "image/png" /\ ~Decodable(f)
                         \/ f.type = "image/jpeg" /\ f.size > limit
                         \/ f.type = "text/plain" }

InitQueue ==
  /\ variant = "fs"
  /\ pluginConfig \in Configs("fs")
  /\ inputs = [uploads |-> { [file |-> f, skip |-> FALSE] :
                               f \in QueueFiles(LimitBytes("fs", pluginConfig)) },
               lengths |-> Lengths]
  /\ budget = [calls |-> MaxTasks, overlap |-> MaxTasks]
  /\ isReady = FALSE
  /\ calls = [u \in 1..MaxTasks |-> IdleCall]
  /\ canvas = NoCanvas
  /\ metrics = NoMetrics
  /\ ratios = << >>
  /\ processor = IdleProcessor
  /\ twin = << >>
  /\ vision = NoVision
  /\ multi = NoMulti
  /\ sched = NoScheduler
  /\ pool = NoPool
  /\ started = 0
  /\ sizeIn = [width |-> 1, height |-> 1, maxSize |-> 1, mode |-> "smart"]
  /\ sizeOut = NoDims
  /\ sizePc = "idle"

\* the events of the host: they arrive
HostEvents ==
  \/ \E u \in DOMAIN calls : fsImageLoad(u)
  \/ \E u \in DOMAIN calls : fsImageError(u)
  \/ \E u \in DOMAIN calls, length \in inputs.lengths : fsBlob(u, length)
  \/ \E u \in DOMAIN calls : fsRead(u)
  \/ \E u \in DOMAIN calls, url \in Urls : fsSaved(u, url)
  \/ \E u \in DOMAIN calls : fsSaveFailed(u)

\* every call has a slot of its own, in the order of the calls
NextQueue ==
  \/ \E u \in DOMAIN calls, in \in inputs.uploads :
        u = started + 1 /\ fsUpload(u, in)
  \/ HostEvents

SpecQueue == InitQueue /\ [][NextQueue]_vars /\ WF_vars(HostEvents)

(***************************************************************************)
(* Calls of __uploadMultipleImagesByPlugin                                 *)
(***************************************************************************)
MaxFiles == 3

\* the lists of at most n elements of S
ListsUpTo(S, n) == UNION { [1..k -> S] : k \in 0..n }

\* the files of a batch: one that is resized, one that does not decode and
\* one that is no image
BatchFiles(limit) ==
  { f \in Files(limit) : \/ f.image = Image(3000, 500)
                         \/ f.type = "image/png" /\ ~Decodable(f)
                         \/ f.type = "text/plain" }

InitMulti ==
  /\ variant = "index"
  /\ pluginConfig \in Configs("index")
  /\ inputs = [uploads |-> {}, lengths |-> Lengths,
               batches |-> ListsUpTo(BatchFiles(LimitBytes("index", pluginConfig)),
                                     MaxFiles)]
  /\ budget = [calls |-> 0, overlap |-> 0]
  /\ isReady = FALSE
  /\ calls = [u \in 1..MaxFiles |-> IdleCall]
  /\ canvas = NoCanvas
  /\ metrics = NoMetrics
  /\ ratios = << >>
  /\ processor = IdleProcessor
  /\ twin = << >>
  /\ vision = NoVision
  /\ multi = NoMulti
  /\ sched = NoScheduler
  /\ pool = NoPool
  /\ started = 0
  /\ sizeIn = [width |-> 1, height |-> 1, maxSize |-> 1, mode |-> "smart"]
  /\ sizeOut = NoDims
  /\ sizePc = "idle"

NextMulti ==
  \/ \E files \in inputs.batches : multiCall(files)
  \/ multiResume
  \/ \E u \in DOMAIN calls, length \in inputs.lengths : idxImageLoad(u, length)
  \/ \E u \in DOMAIN calls : idxImageError(u)
  \/ \E u \in DOMAIN calls, url \in Urls : idxSaved(u, url)
  \/ \E u \in DOMAIN calls : idxSaveFailed(u)

SpecMulti == InitMulti /\ [][NextMulti]_vars

(***************************************************************************)
(* The scheduler of the ecosystem and the callers of its API               *)
(***************************************************************************)
MaxSubmitted == 3

\* the calls of the API: media.process with and without a priority,
\* media.processBatch with one file, tasks.submit with a type and a priority
\* of its own
ApiCalls ==
  { [api |-> "media", type |-> "media:process", priority |-> "normal", files |-> 0],
    [api |-> "media", type |-> "media:process", priority |-> "high", files |-> 0],
    [api |-> "media", type |-> "media:batch", priority |-> "low", files |-> 1],
    [api |-> "tasks", type |-> "media:convert", priority |-> "urgent", files |-> 0] }

\* what processMediaTask can end with
Outcomes == {"ok", "Worker failed", "Save failed"}

InitSched ==
  /\ variant = "ecosystem"
  /\ pluginConfig = ECOSYSTEM_CONFIG
  /\ inputs = [uploads |-> {}, lengths |-> {}, calls |-> ApiCalls]
  /\ budget = [calls |-> MaxSubmitted, overlap |-> MaxSubmitted]
  /\ isReady = FALSE
  /\ calls = << >>
  /\ canvas = NoCanvas
  /\ metrics = NoMetrics
  /\ ratios = << >>
  /\ processor = IdleProcessor
  /\ twin = << >>
  /\ vision = NoVision
  /\ multi = NoMulti
  /\ sched = NoScheduler
  /\ pool = NoPool
  /\ started = 0
  /\ sizeIn = [width |-> 1, height |-> 1, maxSize |-> 1, mode |-> "smart"]
  /\ sizeOut = NoDims
  /\ sizePc = "idle"

\* the timers and the events of the host
SchedulerEvents ==
  \/ \E id \in 1..MaxSubmitted : schedStored(id)
  \/ schedTick
  \/ \E id \in 1..MaxSubmitted : schedStarted(id)
  \/ \E id \in 1..MaxSubmitted, outcome \in Outcomes : schedProcessed(id, outcome)
  \/ \E id \in 1..MaxSubmitted : schedFinished(id)
  \/ \E id \in 1..MaxSubmitted : schedFailed(id)
  \/ \E id \in 1..MaxSubmitted : checkTask(id)

NextSched ==
  \/ schedInitialize
  \/ \E call \in inputs.calls : schedSubmit(call)
  \/ schedStop
  \/ SchedulerEvents

\* timers fire and the requests of the host are answered
SpecSched == InitSched /\ [][NextSched]_vars /\ WF_vars(SchedulerEvents)

(***************************************************************************)
(* The scheduler with the cancellation of tasks                            *)
(***************************************************************************)
NextCancel ==
  \/ NextSched
  \/ \E id \in 1..MaxSubmitted : schedCancel(id)

SpecCancel == InitSched /\ [][NextCancel]_vars /\ WF_vars(SchedulerEvents)

(***************************************************************************)
(* The worker pool of the ecosystem, its callers and its workers           *)
(***************************************************************************)
MaxJobs == 4

\* the priorities execute is called with (processMediaTask passes the
\* priority of its task)
JobPriorities == {"normal", "high"}

InitPool ==
  /\ variant = "ecosystem"
  /\ pluginConfig = ECOSYSTEM_CONFIG
  /\ inputs = [uploads |-> {}, lengths |-> {}, calls |-> {}]
  /\ budget = [calls |-> MaxJobs, overlap |-> MaxJobs]
  /\ isReady = FALSE
  /\ calls = << >>
  /\ canvas = NoCanvas
  /\ metrics = NoMetrics
  /\ ratios = << >>
  /\ processor = IdleProcessor
  /\ twin = << >>
  /\ vision = NoVision
  /\ multi = NoMulti
  /\ sched = NoScheduler
  /\ pool = poolInitialize(NoPool)
  /\ started = 0
  /\ sizeIn = [width |-> 1, height |-> 1, maxSize |-> 1, mode |-> "smart"]
  /\ sizeOut = NoDims
  /\ sizePc = "idle"

\* the answers and the errors of the workers
WorkerEvents ==
  \/ \E w \in 1..ECOSYSTEM_CONFIG.services.workerPool.poolSize,
        success \in BOOLEAN : handleWorkerMessage(w, success)
  \/ \E w \in 1..ECOSYSTEM_CONFIG.services.workerPool.poolSize :
        handleWorkerError(w)

NextPool ==
  \/ \E priority \in JobPriorities : execute(priority)
  \/ WorkerEvents
  \/ terminate

SpecPool == InitPool /\ [][NextPool]_vars

(***************************************************************************)
(* Uploads while the user moves the size limit in the settings panel       *)
(***************************************************************************)
MaxUploads == 2

\* the limits the user sets, in megabytes, the default of both scripts
\* among them
LimitChoices == {1, 5, 20}

\* PNG images of 100 by 100 whose sizes lie on and just over each limit
SettingsUploads ==
  { [file |-> [type |-> "image/png", ext |-> "png", size |-> n * MB + over,
               image |-> Image(100, 100)],
     skip |-> FALSE] : n \in LimitChoices, over \in {0, 1} }

InitSettings ==
  /\ variant \in {"vb", "index"}
  /\ pluginConfig = IF variant = "vb" THEN CONFIG_DEFAULTS ELSE DEFAULT_CONFIG
  /\ inputs = [uploads |-> SettingsUploads, lengths |-> Lengths]
  /\ budget = [calls |-> MaxUploads, overlap |-> MaxUploads]
  /\ isReady = FALSE
  /\ calls = [u \in 1..MaxUploads |-> IdleCall]
  /\ canvas = NoCanvas
  /\ metrics = NoMetrics
  /\ ratios = << >>
  /\ processor = IdleProcessor
  /\ twin = << >>
  /\ vision = NoVision
  /\ multi = NoMulti
  /\ sched = NoScheduler
  /\ pool = NoPool
  /\ started = 0
  /\ sizeIn = [width |-> 1, height |-> 1, maxSize |-> 1, mode |-> "smart"]
  /\ sizeOut = NoDims
  /\ sizePc = "idle"

\* each upload has a slot of its own
NextSettings ==
  \/ vbInitialize
  \/ \E value \in LimitChoices : vbMaxFileSizeInput(value)
  \/ \E value \in LimitChoices : idxMaxFileSizeInput(value)
  \/ \E u \in DOMAIN calls, in \in inputs.uploads :
       u = started + 1 /\ vbUpload(u, in)
  \/ \E u \in DOMAIN calls, in \in inputs.uploads :
       u = started + 1 /\ idxUpload(u, in)

SpecSettings == InitSettings /\ [][NextSettings]_vars

(***************************************************************************)
(* Direct calls of calculateOptimalSize                                    *)
(***************************************************************************)
MaxSide == 22

\* the maximum dimensions tried on the grid of small images
MaxSizeChoices == {3, 15}

\* the scenarios of the specification, a small image and three large ones
Scenarios ==
  { [width |-> 4000, height |-> 2000, maxSize |-> 2048, mode |-> "speed"],
    [width |-> 1000, height |-> 1000, maxSize |-> 2048, mode |-> "quality"],
    [width |-> 3000, height |-> 500,  maxSize |-> 2048, mode |-> "smart"],
    [width |-> 100,  height |-> 100,  maxSize |-> 2048, mode |-> "speed"],
    [width |-> 3136, height |-> 2000, maxSize |-> 2048, mode |-> "speed"],
    [width |-> 3136, height |-> 2000, maxSize |-> 2048, mode |-> "smart"],
    [width |-> 3136, height |-> 1000, maxSize |-> 2048, mode |-> "smart"],
    [width |-> 2496, height |-> 1040, maxSize |-> 2048, mode |-> "quality"] }

SizeInputs ==
  [width : 1..MaxSide, height : 1..MaxSide, maxSize : MaxSizeChoices,
   mode : Modes] \cup Scenarios

\* no script is loaded: the function is called on its own
InitSize ==
  /\ sizeIn \in SizeInputs
  /\ sizeOut = NoDims
  /\ sizePc = "called"
  /\ variant = "vb"
  /\ pluginConfig = CONFIG_DEFAULTS
  /\ inputs = [uploads |-> {}, lengths |-> {}]
  /\ budget = [calls |-> 0, overlap |-> 0]
  /\ isReady = FALSE
  /\ calls = << >>
  /\ canvas = NoCanvas
  /\ metrics = NoMetrics
  /\ ratios = << >>
  /\ processor = IdleProcessor
  /\ twin = << >>
  /\ vision = NoVision
  /\ multi = NoMulti
  /\ sched = NoScheduler
  /\ pool = NoPool
  /\ started = 0

\* one call of calculateOptimalSize on the chosen arguments
Calculate ==
  /\ sizePc = "called"
  /\ sizePc' = "returned"
  /\ sizeOut' = calculateOptimalSize(sizeIn.width, sizeIn.height,
                                     sizeIn.maxSize, sizeIn.mode)
  /\ UNCHANGED sizeIn
  /\ UNCHANGED varsUpload

NextSize == Calculate

SpecSize == InitSize /\ [][NextSize]_vars

(***************************************************************************)
(* Exact arithmetic, for stating the claims                                *)
(***************************************************************************)
Max(a, b) == IF a > b THEN a ELSE b

\* floor(width * r), floor(height * r) for the exact ratio
\* r = min(num / (den * width), num / (den * height))
ExactScaled(width, height, num, den) ==
  [width  |-> (width * num) \div (den * Max(width, height)),
   height |-> (height * num) \div (den * Max(width, height))]

Unchanged(in) == [width |-> in.width, height |-> in.height]

\* C1: in mode 'speed' an image within maxDimension keeps its dimensions, and
\* an oversized one gets floor(width*r), floor(height*r) for
\* r = min(maxDimension/width, maxDimension/height)
C1_SpeedExact ==
  (sizePc = "returned" /\ sizeIn.mode = "speed") =>
    IF sizeIn.width <= sizeIn.maxSize /\ sizeIn.height <= sizeIn.maxSize
      THEN sizeOut = Unchanged(sizeIn)
    ELSE sizeOut = ExactScaled(sizeIn.width, sizeIn.height, sizeIn.maxSize, 1)

\* C2: in the balanced mode an image with aspect ratio in (0.5, 2) gets
\* floor(width*r), floor(height*r), whatever r is
C2_BalancedNormalExact ==
  (/\ sizePc = "returned"
   /\ sizeIn.mode = "smart"
   /\ 2 * sizeIn.width > sizeIn.height
   /\ sizeIn.width < 2 * sizeIn.height) =>
    sizeOut = ExactScaled(sizeIn.width, sizeIn.height, sizeIn.maxSize, 1)

\* C3: in the balanced mode an image with an extreme aspect ratio is scaled
\* by r (both dimensions floored) if r < 1 and is unchanged otherwise
C3_BalancedExtremeExact ==
  (/\ sizePc = "returned"
   /\ sizeIn.mode = "smart"
   /\ (sizeIn.width > 2 * sizeIn.height \/ 2 * sizeIn.width < sizeIn.height)) =>
    IF Max(sizeIn.width, sizeIn.height) > sizeIn.maxSize
      THEN sizeOut = ExactScaled(sizeIn.width, sizeIn.height, sizeIn.maxSize, 1)
    ELSE sizeOut = Unchanged(sizeIn)

\* C4: in mode 'quality' no output dimension exceeds 1.2*maxDimension or the
\* input dimension; the output is the input when
\* min(1.2*maxDimension/width, 1.2*maxDimension/height) >= 1 and the floored
\* scaled pair otherwise
C4_QualityBounded ==
  (sizePc = "returned" /\ sizeIn.mode = "quality") =>
    /\ 5 * sizeOut.width <= 6 * sizeIn.maxSize
    /\ 5 * sizeOut.height <= 6 * sizeIn.maxSize
    /\ sizeOut.width <= sizeIn.width
    /\ sizeOut.height <= sizeIn.height
    /\ IF 5 * Max(sizeIn.width, sizeIn.height) <= 6 * sizeIn.maxSize
         THEN sizeOut = Unchanged(sizeIn)
       ELSE sizeOut = ExactScaled(sizeIn.width, sizeIn.height,
                                  6 * sizeIn.maxSize, 5)

\* the call has got as far as the validation of its file
Validated(rec) ==
  /\ rec.pc \notin {"idle", "queued"}
  /\ rec.err \notin {"simpleUploadMode", "notReady", "disabled"}

\* the image of the call has been resized
Resized(rec) == rec.dims # NoDims

\* C5: a resize of the balanced mode on an image of normal aspect ratio
\* happens only to an oversized image (width or height above maxDimension)
\* and never returns a dimension larger than the image's
C5_BalancedNormalOversized ==
  \A u \in DOMAIN calls :
    (/\ variant = "vb"
     /\ Resized(calls[u])
     /\ calls[u].mode = "smart"
     /\ 2 * calls[u].file.image.width >= calls[u].file.image.height
     /\ calls[u].file.image.width <= 2 * calls[u].file.image.height) =>
      /\ Max(calls[u].file.image.width, calls[u].file.image.height)
           > calls[u].maxSize
      /\ calls[u].dims.width <= calls[u].file.image.width
      /\ calls[u].dims.height <= calls[u].file.image.height

ValidationErrors == {"notImage", "format", "size"}

\* C6: a step of the Visual Bridge that rejects a call because validate
\* rejected its file leaves the call with no decode, no read and no save
\* started, and leaves the metrics and the canvas as they were
C6_FailFast ==
  [][\A u \in DOMAIN calls :
       (/\ variant = "vb"
        /\ calls'[u] # calls[u]
        /\ calls'[u].pc = "rejected"
        /\ calls'[u].err \in ValidationErrors) =>
         /\ calls'[u].decodes = 0
         /\ calls'[u].reads = 0
         /\ calls'[u].saves = 0
         /\ metrics' = metrics
         /\ canvas' = canvas]_vars

\* an oversized or unsupported file is rejected after an earlier upload has
\* been encoded and counted
C6_Witness ==
  \E u \in DOMAIN calls :
    /\ variant = "vb"
    /\ calls[u].pc = "rejected"
    /\ calls[u].err \in {"format", "size"}
    /\ calls[u].decodes = 0
    /\ metrics.processed >= 1

\* C7: in every variant a validated upload of a file whose MIME type is
\* outside the allow-list is rejected with the unsupported-format error,
\* whatever its size
C7_UnsupportedFormat ==
  \A u \in DOMAIN calls :
    (/\ Validated(calls[u])
     /\ calls[u].file.type \notin AllowList(variant, pluginConfig)) =>
      /\ calls[u].pc = "rejected"
      /\ calls[u].err \in {"notImage", "format"}

\* C8: in every variant a validated upload of a file whose MIME type is in
\* the allow-list has the size-limit error exactly when its size exceeds the
\* configured limit
C8_SizeLimit ==
  \A u \in DOMAIN calls :
    (/\ Validated(calls[u])
     /\ calls[u].file.type \in AllowList(variant, pluginConfig)) =>
      (calls[u].err = "size"
         <=> calls[u].file.size > LimitBytes(variant, pluginConfig))

\* a file of exactly the limit has passed validation and been uploaded
C8_Witness ==
  \E u \in DOMAIN calls :
    /\ calls[u].file.size = LimitBytes(variant, pluginConfig)
    /\ calls[u].file.type \in AllowList(variant, pluginConfig)
    /\ calls[u].pc = "resolved"

\* C9: once the image element of a call has failed to load its file the call
\* is rejected with the decode error, after one decode and without a save
C9_DecodeErrorRejects ==
  \A u \in DOMAIN calls :
    calls[u].loadError =>
      /\ calls[u].pc = "rejected"
      /\ calls[u].err = "decode"
      /\ calls[u].decodes = 1
      /\ calls[u].saves = 0

\* (p1 + ... + pn) / n in double arithmetic, the sum taken in order
RECURSIVE FSum(_)
FSum(ps) ==
  IF Len(ps) = 0 THEN FZero
  ELSE FAdd(FSum(SubSeq(ps, 1, Len(ps) - 1)), ps[Len(ps)])

Mean(ps) == FDivInt(FSum(ps), Len(ps))

\* C10 as stated: with metrics enabled, after n encodes processed is n and
\* avgCompressionRatio is the arithmetic mean of their percentage reductions
C10_Mean ==
  pluginConfig.enableMetrics =>
    /\ metrics.processed = Len(ratios)
    /\ Len(ratios) >= 1 => metrics.avgCompressionRatio = Mean(ratios)

\* C10 amended: with metrics enabled, after n encodes processed is n, and
\* for n <= 3 avgCompressionRatio is the arithmetic mean of their percentage
\* reductions (from the fourth encode on the two can differ in the last bit)
C10_MeanOfThree ==
  pluginConfig.enableMetrics =>
    /\ metrics.processed = Len(ratios)
    /\ Len(ratios) \in 1..3 => metrics.avgCompressionRatio = Mean(ratios)

\* reductions of 10%, 20% and 30% have been counted and the average is 20
C10_Witness ==
  /\ pluginConfig.enableMetrics
  /\ ratios = <<ToDouble(10), ToDouble(20), ToDouble(30)>>
  /\ metrics.processed = 3
  /\ metrics.avgCompressionRatio = ToDouble(20)

\* C11: two runs of the same uploads that differ only in the metrics they
\* start with, or in enableMetrics, agree at every moment on the call
\* (accepted or rejected, its error, its dimensions, what is saved, the URL)
\* and on the canvas
C11_Telemetry ==
  /\ twin[1].call = twin[2].call
  /\ twin[1].canvas = twin[2].canvas

\* both runs have returned the URL of an upload whose encode the first
\* counted, and their metrics differ
C11_Witness ==
  /\ twin[1].call.pc = "resolved"
  /\ twin[2].call.pc = "resolved"
  /\ twin[1].call.dims # NoDims
  /\ twin[1].metrics.processed >= 1
  /\ twin[1].metrics # twin[2].metrics

\* C12: whatever calls overlap, the output of a call is encoded from a
\* canvas of exactly the dimensions calculateOptimalSize returns for the
\* image of that call
C12_OwnDimensions ==
  \A u \in DOMAIN calls :
    calls[u].enc > 0 =>
      /\ calls[u].encoded = calls[u].dims
      /\ calls[u].dims =
           calculateOptimalSize(calls[u].file.image.width,
                                calls[u].file.image.height,
                                calls[u].maxSize, calls[u].mode)

\* two calls that were decoding at the same time have both been encoded, at
\* different dimensions
C12_Witness ==
  \E u, v \in DOMAIN calls :
    /\ calls[u].pc = "saving"
    /\ calls[v].pc = "saving"
    /\ calls[u].encoded # calls[v].encoded
    /\ calls[u].encoded # NoDims
    /\ calls[v].encoded # NoDims

\* C13: a call of the Visual Bridge that has returned has validated its
\* file, then processed it (optimizeImage, or the raw read with
\* skipOptimization), then called saveBase64AsFile once, then returned the
\* URL saveBase64AsFile resolved with; a call rejected by the validation or
\* by the processing has not called saveBase64AsFile
C13_StepOrder ==
  \A u \in DOMAIN calls :
    variant = "vb" =>
      /\ calls[u].pc = "resolved" =>
           /\ calls[u].steps =
                <<"validate", IF calls[u].skip THEN "read" ELSE "optimize",
                  "save", "return">>
           /\ calls[u].saves = 1
           /\ calls[u].url = calls[u].stored
           /\ calls[u].url \in Urls
      /\ (calls[u].pc = "rejected" /\ calls[u].err # "save") =>
           /\ calls[u].saves = 0
           /\ \A k \in DOMAIN calls[u].steps : calls[u].steps[k] # "save"

\* an optimized upload and, after it, an unoptimized one have returned
C13_Witness ==
  \E u \in DOMAIN calls :
    /\ variant = "vb"
    /\ calls[u].pc = "resolved"
    /\ calls[u].skip
    /\ calls[u].url = "url2"
    /\ metrics.processed = 1

\* C14: with simple upload mode enabled, an upload of a valid image is not
\* rejected, and once settled it has returned the URL of the saved file
C14_SimpleModeUploads ==
  \A u \in DOMAIN calls :
    (/\ variant = "vb"
     /\ pluginConfig.simpleMode
     /\ calls[u].pc # "idle"
     /\ vbValidate(pluginConfig, calls[u].file) = "ok"
     /\ Decodable(calls[u].file)) =>
      /\ calls[u].pc # "rejected"
      /\ calls[u].pc = "resolved" => calls[u].url \in Urls

\* C15: a call of __visionAnalysisByTavern is never rejected; it resolves
\* to success with a non-blank result only after a generate function
\* (generateRaw if it is a function) has answered, and otherwise to
\* {success: false, result: '', error: a message}
C15_NeverRejects ==
  /\ vision.pc # "rejected"
  /\ vision.pc = "resolved" =>
       IF vision.value.success
         THEN /\ vision.by = (IF vision.host.generateRaw = "function"
                                THEN "generateRaw" ELSE "Generate")
              /\ Len(vision.value.result) > 0
              /\ Trim(vision.value.result) = vision.value.result
       ELSE /\ vision.value.result = << >>
            /\ vision.value.error # ""

Handling ==
  {u \in DOMAIN calls :
     calls[u].pc \in {"decoding", "encoding", "reading", "saving"}}

\* C17: whatever calls of enqueue overlap, also those made while a task is
\* being handled, at most one invocation of handleTask is in flight at any
\* time, and handleTask is invoked with the tasks in the order of their
\* enqueue.
C17_OneAtATime ==
  /\ Cardinality(Handling) <= 1
  /\ \A k \in DOMAIN processor.handled : processor.handled[k] = k
  /\ \A k \in DOMAIN processor.queue :
        /\ processor.queue[k].id = Len(processor.handled) + k
        /\ calls[processor.queue[k].call].pc = "queued"
  /\ Len(processor.handled) + Len(processor.queue) = started

\* a task is being handled with two tasks waiting behind it, enqueued while
\* the handler was running
C17_Witness ==
  /\ Cardinality(Handling) = 1
  /\ Len(processor.queue) = 2
  /\ processor.handled = <<1>>

\* the calls whose task has been resolved or rejected
SettledTasks == {u \in DOMAIN calls : calls[u].pc \in {"resolved", "rejected"}}

\* a handler invocation that never settles: compressImage waiting for the
\* load of an image that does not decode
NeverSettles ==
  \E u \in DOMAIN calls : calls[u].pc = "decoding" /\ ~Decodable(calls[u].file)

\* C18: every task enqueued in FileProcessor is eventually settled, and
\* settled once, provided each handler invocation settles; a rejected task
\* does not stop the later tasks; whenever processing is false the queue is
\* empty, the queue holding the tasks that wait behind the current one; and
\* metrics.processed + metrics.errors is the number of settled tasks.
C18_EverySettledOnce ==
  /\ [](/\ ~processor.processing => Len(processor.queue) = 0
        /\ ~processor.processing => Handling = {}
        /\ \A k \in DOMAIN processor.queue :
              calls[processor.queue[k].call].pc = "queued"
        /\ Cardinality({u \in DOMAIN calls : calls[u].pc = "queued"})
             = Len(processor.queue)
        /\ processor.metrics.processed + processor.metrics.errors
             = Cardinality(SettledTasks)
        /\ processor.metrics.processed
             = Cardinality({u \in DOMAIN calls : calls[u].pc = "resolved"}))
  /\ [][\A u \in DOMAIN calls :
          calls[u].pc \in {"resolved", "rejected"} => calls'[u] = calls[u]]_vars
  /\ \A u \in 1..MaxTasks :
        (calls[u].pc # "idle") ~> (u \in SettledTasks \/ NeverSettles)

\* every task is settled, one of them resolved after an earlier one was
\* rejected
C18_Witness ==
  /\ Cardinality(SettledTasks) = MaxTasks
  /\ ~processor.processing
  /\ \E u, v \in DOMAIN calls :
        /\ u < v
        /\ calls[u].pc = "rejected"
        /\ calls[v].pc = "resolved"

\* C19: the TaskScheduler keeps running after a task fails: when executeTask
\* has failed for a task and the scheduler has not been stopped, the loop of
\* startScheduler is still there to start the tasks of the queue and those
\* submitted later.
C19_KeepsRunning ==
  (/\ sched.isRunning
   /\ \E id \in DOMAIN sched.tasks : sched.tasks[id].status = "failed")
    => sched.loop \in {"sleeping", "executing"}

\* the state of the promise media.process or media.processBatch returned for
\* task id
Promise(id) ==
  IF id \in DOMAIN sched.waits THEN sched.waits[id].pc ELSE "none"

\* C20: the promise of media.process and media.processBatch eventually
\* settles for every submitted task, resolved with task.result when the task
\* completes and rejected with its error when the task fails.
C20_PromiseSettles ==
  /\ [](\A id \in DOMAIN sched.waits :
          /\ sched.waits[id].pc = "resolved"
               => /\ sched.tasks[id].status = "completed"
                  /\ sched.waits[id].value = sched.tasks[id].result
          /\ sched.waits[id].pc = "rejected"
               => /\ sched.tasks[id].status = "failed"
                  /\ sched.waits[id].error = sched.tasks[id].error)
  /\ \A id \in 1..MaxSubmitted :
       (Promise(id) = "polling")
         ~> (Promise(id) \in {"resolved", "rejected"} \/ ~sched.isRunning)

(***************************************************************************)
(* C21: cancellation is final.  Once handleTaskCancellation has found a    *)
(* task queued or running, a task that was pending is never started, a     *)
(* task marked cancelled keeps that status, the task never enters          *)
(* completedTasks, and nothing more is published for it on task:completed  *)
(* or task:failed.                                                         *)
(***************************************************************************)
Outcome(published) ==
  SelectSeq(published, LAMBDA channel : channel \in {"task:completed", "task:failed"})

C21_CancellationFinal ==
  [][\A id \in DOMAIN sched.tasks :
       sched.tasks[id].cancelled =>
         /\ sched.tasks[id].status \in {"pending", "cancelled"}
              => sched'.tasks[id].status = sched.tasks[id].status
         /\ id \notin sched'.completedTasks
         /\ Outcome(sched'.tasks[id].published)
              = Outcome(sched.tasks[id].published)]_vars

\* the part of C21 about queued tasks: a task cancelled in the queue is not
\* started
C21_QueuedNeverStarted ==
  \A id \in DOMAIN sched.tasks :
    (sched.tasks[id].cancelled /\ sched.tasks[id].status = "pending")
      => sched.tasks[id].phase = "queued"

(***************************************************************************)
(* C23: tasks are dequeued by priority.  Whenever the scheduler starts a   *)
(* task, no task waiting in the queue has a higher priority (high before   *)
(* normal before low), and none of the same priority was created earlier,  *)
(* whatever was submitted and cancelled before.                            *)
(***************************************************************************)
Named(id) == sched.tasks[id].priority \in {"high", "normal", "low"}

Rank(id) ==
  IF sched.tasks[id].priority = "high" THEN 3
  ELSE IF sched.tasks[id].priority = "normal" THEN 2 ELSE 1

C23_StartsByPriority ==
  [][\A id \in DOMAIN sched.tasks :
       (id \notin sched.runningTasks /\ id \in sched'.runningTasks /\ Named(id)) =>
         \A i \in DOMAIN sched.taskQueue :
           LET waiting == sched.taskQueue[i]
           IN  \/ waiting = id
               \/ ~Named(waiting)
               \/ Rank(waiting) < Rank(id)
               \/ Rank(waiting) = Rank(id) /\ id < waiting]_vars

\* C23 where every task has one of the three priorities: no task of a
\* priority outside them was submitted
C23_NamedPriorities ==
  [][(\A id \in DOMAIN sched.tasks : Named(id)) =>
       \A id \in DOMAIN sched.tasks :
         (id \notin sched.runningTasks /\ id \in sched'.runningTasks) =>
           \A i \in DOMAIN sched.taskQueue :
             LET waiting == sched.taskQueue[i]
             IN  \/ waiting = id
                 \/ Rank(waiting) < Rank(id)
                 \/ Rank(waiting) = Rank(id) /\ id < waiting]_vars

(***************************************************************************)
(* C22: every job passed to WorkerPool.execute is settled exactly once,    *)
(* also when its worker raises an error event or terminate() is called     *)
(* with jobs active or queued, and no job is queued while a worker is      *)
(* idle.  For a job to be settled it must stay on the way to its           *)
(* settlement: in activeJobs, and queued or posted to a worker.            *)
(***************************************************************************)
OnItsWay(id) ==
  /\ id \in pool.activeJobs
  /\ \/ \E i \in DOMAIN pool.taskQueue : pool.taskQueue[i] = id
     \/ \E w \in DOMAIN pool.workers : pool.workers[w].job = id

C22_NoIdleWorker ==
  Len(pool.taskQueue) > 0 => \A w \in DOMAIN pool.workers : pool.workers[w].busy

C22_JobsSettle ==
  /\ \A id \in DOMAIN pool.jobs :
       /\ pool.jobs[id].settlements <= 1
       /\ pool.jobs[id].settlements = 0 => OnItsWay(id)
  /\ C22_NoIdleWorker

(***************************************************************************)
(* C24: the size limit enforced is the one configured.  With the limit    *)
(* the settings panel holds (N megabytes), an upload of an image that the  *)
(* script accepts otherwise is rejected for its size if and only if the    *)
(* file is larger than N * 1024 * 1024 bytes, in the Visual Bridge and in  *)
(* index.js.                                                               *)
(***************************************************************************)
\* the number of megabytes the field of the panel holds
ConfiguredMB ==
  IF variant = "vb" THEN pluginConfig.maxFileSize \div MB
  ELSE pluginConfig.maxFileSize

Uploaded(u) == calls[u].pc = "idle" /\ calls'[u].pc # "idle"

C24_ConfiguredLimit ==
  [][\A u \in DOMAIN calls :
       (Uploaded(u) /\ (variant = "vb" => isReady)) =>
         (calls'[u].err = "size"
            <=> calls'[u].file.size > ConfiguredMB * 1024 * 1024)]_vars

\* the half of C24 about index.js
C24_IndexLimit ==
  [][variant = "index" =>
       \A u \in DOMAIN calls :
         Uploaded(u) =>
           (calls'[u].err = "size"
              <=> calls'[u].file.size > ConfiguredMB * 1024 * 1024)]_vars

(***************************************************************************)
(* C25: for positive integers width, height and maxSize and every mode,    *)
(* calculateOptimalSize returns a width and a height of at least 1, and    *)
(* in the modes speed and smart (the balanced strategy) the longer side    *)
(* returned for an oversized input does not exceed maxSize.                *)
(***************************************************************************)
Oversized == sizeIn.width > sizeIn.maxSize \/ sizeIn.height > sizeIn.maxSize

C25_WithinMaxSize ==
  (sizePc = "returned" /\ sizeIn.mode \in {"speed", "smart"} /\ Oversized) =>
    /\ sizeOut.width <= sizeIn.maxSize
    /\ sizeOut.height <= sizeIn.maxSize

C25_NoZeroDimension ==
  sizePc = "returned" =>
    /\ sizeOut.width >= 1
    /\ sizeOut.height >= 1
    /\ C25_WithinMaxSize

====
